---- MODULE Spec2Model ----
(***************************************************************************)
(* Model of the UltraFXR front end: the tokenizer (token.rs), the UTF-8    *)
(* scanner (utf8.rs), the number and units parsers (number.rs, units.rs)   *)
(* and the incremental s-expression parser (parser.rs), driven the way     *)
(* Command::run_file (cmd_sfx.rs) drives them.                             *)
(*                                                                         *)
(* Bytes are integers 0..255.  The source text is a run of `lead` space    *)
(* bytes followed by the bytes of `input`; the run lets a text of 2^32     *)
(* bytes be represented without enumerating it.  Unsigned 32-bit and       *)
(* pointer-sized quantities that can come near 2^32 are kept as pairs      *)
(* <<hi, lo>> of 16-bit limbs (value hi * 65536 + lo).                     *)
(***************************************************************************)
EXTENDS Integers, Sequences, FiniteSets, TLC

VARIABLES
    lead,      \* number of space bytes in front of `input` (wide number)
    input,     \* the bytes of the source text after the leading run
    pc,        \* position of the driver: start, tokens, parse, finish, done, failed, panicked
    tlead,     \* Tokenizer.text: space bytes of the leading run not yet consumed
    toff,      \* Tokenizer.text: bytes of `input` already consumed
    pos,       \* Tokenizer.pos
    toks,      \* every token returned by Tokenizer::next so far, in call order
    exprs,     \* Parser.exprs
    groups,    \* Parser.groups
    number,    \* Parser.number
    errs,      \* diagnostics handed to the ErrorHandler, in order
    result,    \* the ParseResult of the last Parser::parse call
    values,    \* expressions collected by run_file
    overflowed,\* some u32 addition on a Pos has overflowed (and wrapped)
    snap,      \* what the last operation saw when it read its last token
    operands,  \* arguments of the library functions applied directly (units, numbers)
    rets,      \* what those applications returned
    env,       \* the evaluator's Env: has_error, variables, graph
    evlog,     \* one record per top-level form evaluated by evaluate_program
    outcome,   \* what evaluate_program returned
    graph,     \* Graph.nodes
    program,   \* the Program built by Program::new
    render,    \* the Program::render calls made so far
    wave       \* the samples handed to the WAV writer

frontvars == <<lead, input, pc, tlead, toff, pos, toks, exprs, groups, number, errs, result,
               values, overflowed, snap>>

frontvarsButPc == <<lead, input, tlead, toff, pos, toks, exprs, groups, number, errs, result,
                    values, overflowed, snap>>

backvars == <<operands, rets, env, evlog, outcome, graph, program, render, wave>>

vars == <<lead, input, pc, tlead, toff, pos, toks, exprs, groups, number, errs, result,
          values, overflowed, snap, operands, rets, env, evlog, outcome, graph, program,
          render, wave>>

----------------------------------------------------------------------------
(* Bounds of the model. *)

MaxLen == 4          \* longest `input` of the tokenizer specification
MaxParseLen == 5     \* longest `input` of the parser specification
MaxBigLen == 2       \* longest `input` behind a huge leading run
MaxEndCalls == 2     \* Tokenizer::next calls allowed after the first End

----------------------------------------------------------------------------
(* Wide numbers: <<hi, lo>> with 0 <= lo < Limb.  A u32 has hi < Limb. *)

Limb == 65536

Wide(n) == <<n \div Limb, n % Limb>>

WAdd(a, b) == <<a[1] + b[1] + ((a[2] + b[2]) \div Limb), (a[2] + b[2]) % Limb>>

WAddN(a, n) == WAdd(a, Wide(n))

WLess(a, b) == a[1] < b[1] \/ (a[1] = b[1] /\ a[2] < b[2])

WLeq(a, b) == a = b \/ WLess(a, b)

FitsU32(a) == a[1] < Limb

WrapU32(a) == <<a[1] % Limb, a[2]>>

\* u32::MAX = 2^32 - 1
U32Max == <<Limb - 1, Limb - 1>>

----------------------------------------------------------------------------
(* token.rs: character classes. *)

Letters == (65..90) \cup (97..122)

Digits == 48..57

\* '!' '$' '%' '&' '*' '/' ':' '<' '=' '>' '?' '@' '^' '_' '~'
SymbolStartPunct == {33, 36, 37, 38, 42, 47, 58, 60, 61, 62, 63, 64, 94, 95, 126}

is_space(c) == c = 32 \/ (9 <= c /\ c <= 13)

\* the symbol class adds the digits and '-' '+' '.' to the symbol starts
is_symbol(c) == c \in Letters \cup Digits \cup SymbolStartPunct \cup {45, 43, 46}

is_not_symbol(c) == ~is_symbol(c)

is_line_break(c) == c = 10 \/ c = 13

\* Index (0-based, in `text`) of the first byte at or after i that is not a
\* symbol byte, Len(text) if there is none: the start of drop_symbol's result.
RECURSIVE drop_symbol(_, _)
drop_symbol(text, i) ==
    IF i < Len(text) /\ ~is_not_symbol(text[i + 1]) THEN drop_symbol(text, i + 1) ELSE i

\* rest.iter().position(is_line_break), as an index into `text`; a comment
\* with no line break runs to the end of the text.
RECURSIVE comment_end(_, _)
comment_end(text, i) ==
    IF i < Len(text) /\ ~is_line_break(text[i + 1]) THEN comment_end(text, i + 1) ELSE i

\* The whitespace loop of Tokenizer::next over the bytes of `text` from i.
RECURSIVE skip_space(_, _)
skip_space(text, i) ==
    IF i < Len(text) /\ is_space(text[i + 1]) THEN skip_space(text, i + 1) ELSE i

----------------------------------------------------------------------------
(* token.rs: Tokenizer. *)

\* Type of a token that starts with '.' (text[i + 1] is the byte after it).
dot_type(text, i) ==
    IF i < Len(text) /\ text[i + 1] \in Digits THEN "Number" ELSE "Symbol"

\* sign_type without the look past a '.' that follows the sign.
sign_type_nodot(text, i) ==
    IF i < Len(text) /\ text[i + 1] \in Digits THEN "Number" ELSE "Symbol"

\* Type of a token that starts with '-' or '+'.
sign_type(text, i) ==
    IF i < Len(text)
    THEN IF text[i + 1] \in Digits THEN "Number"
         ELSE IF text[i + 1] = 46
              THEN IF i + 1 < Len(text) /\ text[i + 2] \in Digits THEN "Number" ELSE "Symbol"
              ELSE "Symbol"
    ELSE "Symbol"

\* An Error arm that puts the first byte back into `rest`.
error_end_empty(text, j) == j

\* The `_ => Error` arm: `rest` is left as split_first returned it.
error_end(text, j) == j + 1

\* The comment arm: `rest` is cut at the first line break.
comment_rest(text, j) == comment_end(text, j + 1)

\* The match on the first non-space byte text[j + 1]: the token's type and
\* the index at which `rest` starts.
classify(text, j) ==
    LET first == text[j + 1] IN
    IF first \in Letters \cup SymbolStartPunct
        THEN [ty |-> "Symbol", end |-> drop_symbol(text, j + 1)]
    ELSE IF first \in Digits
        THEN [ty |-> "Number", end |-> drop_symbol(text, j + 1)]
    ELSE IF first = 59
        THEN [ty |-> "Comment", end |-> comment_rest(text, j)]
    ELSE IF first = 46
        THEN [ty |-> dot_type(text, j + 1), end |-> drop_symbol(text, j + 1)]
    ELSE IF first \in {45, 43}
        THEN [ty |-> sign_type(text, j + 1), end |-> drop_symbol(text, j + 1)]
    ELSE IF first = 40
        THEN [ty |-> "ParenOpen", end |-> j + 1]
    ELSE IF first = 41
        THEN [ty |-> "ParenClose", end |-> j + 1]
    ELSE [ty |-> "Error", end |-> error_end(text, j)]

\* A whitespace loop that drops the bytes and leaves self.pos alone.
space_advance_keep(p, n) == p

\* self.pos after the whitespace loop has run n times: Pos(i + 1) each time.
space_advance(p, n) == WAdd(p, n)

\* Tokenizer::new.  It has no failure result and makes no check of the
\* length of the text.
Tokenizer_new == [result |-> "Ok", tlead |-> lead, toff |-> 0, pos |-> Wide(1)]

\* The tail of Tokenizer::next for a token of class c found at index j with
\* self.pos = q1: the token, the state left behind, and whether
\* Pos(i + len as u32) overflowed.
make_token(j, q1, c) ==
    [tok |-> [ty |-> c.ty, pos |-> q1, text |-> SubSeq(input, j + 1, c.end)],
     tlead |-> <<0, 0>>, toff |-> c.end, pos |-> WrapU32(WAddN(q1, c.end - j)),
     overflow |-> ~FitsU32(WAddN(q1, c.end - j))]

\* Tokenizer::next after its whitespace loop stopped at index j with
\* self.pos = p1 (before wrapping).
token_at(j, p1) ==
    IF j = Len(input)
    THEN [tok |-> [ty |-> "End", pos |-> WrapU32(p1), text |-> <<>>],
          tlead |-> <<0, 0>>, toff |-> j, pos |-> WrapU32(p1),
          overflow |-> ~FitsU32(p1)]
    ELSE [make_token(j, WrapU32(p1), classify(input, j))
              EXCEPT !.overflow = @ \/ ~FitsU32(p1)]

\* The whitespace loop of Tokenizer::next from the state (tl, off, p) to the
\* index j: all of the leading run and j - off bytes of `input` are dropped.
next_from(tl, off, p, j) == token_at(j, space_advance(p, WAddN(tl, j - off)))

\* Tokenizer::next on the tokenizer state (tl, off, p): the token returned,
\* the state left behind and whether one of the u32 additions on Pos
\* overflowed (Pos(i + 1) in the whitespace loop, Pos(i + len as u32)).
\* The values are those of a build that wraps on overflow.
Tokenizer_next(tl, off, p) == next_from(tl, off, p, skip_space(input, off))

\* Token::source_pos: Span { start: pos, end: Pos(off + text.len() as u32) }.
source_pos(tok) == [start |-> tok.pos, end |-> WrapU32(WAddN(tok.pos, Len(tok.text)))]

\* What an overflowing u32 addition does depends on the build: it panics
\* where overflow checks are compiled in and wraps where they are not.
Outcomes(overflow) == IF overflow THEN {"panic", "wrap"} ELSE {"ok"}

NoSnap == [op |-> "none", tok |-> [ty |-> "End", pos |-> <<0, 0>>, text |-> <<>>],
           exprs |-> <<>>, groups |-> <<>>, errs |-> <<>>]

EndCalls == Cardinality({i \in 1..Len(toks) : toks[i].ty = "End"})

\* The driver constructs the tokenizer (run_file, the tests).
New(next_pc) ==
    /\ pc = "start"
    /\ IF Tokenizer_new.result = "Ok"
       THEN /\ tlead' = Tokenizer_new.tlead
            /\ toff' = Tokenizer_new.toff
            /\ pos' = Tokenizer_new.pos
            /\ pc' = next_pc
       ELSE /\ pc' = "failed"
            /\ UNCHANGED <<tlead, toff, pos>>
    /\ UNCHANGED <<lead, input, toks, exprs, groups, number, errs, result, values,
                   overflowed, snap>>
    /\ UNCHANGED backvars

\* A direct call of Tokenizer::next returned r; o tells what an overflowing
\* Pos addition did.
TokReturned(r, o) ==
    IF o = "panic"
    THEN /\ pc' = "panicked"
         /\ UNCHANGED <<tlead, toff, pos, toks, overflowed>>
    ELSE /\ tlead' = r.tlead
         /\ toff' = r.toff
         /\ pos' = r.pos
         /\ toks' = Append(toks, r.tok)
         /\ overflowed' = (overflowed \/ r.overflow)
         /\ pc' = pc

TokCall(r) == \E o \in Outcomes(r.overflow) : TokReturned(r, o)

\* One direct call of Tokenizer::next.
TokNext ==
    /\ pc = "tokens"
    /\ EndCalls <= MaxEndCalls
    /\ TokCall(Tokenizer_next(tlead, toff, pos))
    /\ UNCHANGED <<lead, input, exprs, groups, number, errs, result, values, snap>>
    /\ UNCHANGED backvars

----------------------------------------------------------------------------
(* Specifications. *)

RECURSIVE SeqsUpTo(_, _)
SeqsUpTo(S, n) ==
    IF n = 0 THEN {<<>>}
    ELSE LET T == SeqsUpTo(S, n - 1) IN
         T \cup {Append(t, b) : t \in {u \in T : Len(u) = n - 1}, b \in S}

\* space LF 's' '1' '.' '+' '-' ';' '(' ')' and the bytes C3 A9 (U+00E9), FF
TokAlphabet == {32, 10, 115, 49, 46, 43, 45, 59, 40, 41, 195, 169, 255}

InitFront ==
    /\ tlead = <<0, 0>>
    /\ toff = 0
    /\ pos = <<0, 0>>
    /\ toks = <<>>
    /\ exprs = <<>>
    /\ groups = <<>>
    /\ number = [sign |-> "Positive", radix |-> 10, digits |-> <<>>, exponent |-> <<>>]
    /\ errs = <<>>
    /\ result = "none"
    /\ values = <<>>
    /\ overflowed = FALSE
    /\ snap = NoSnap

NoEnv == [has_error |-> FALSE, variables |-> <<>>, graph |-> <<>>, panicked |-> FALSE]

NoProgram == [state |-> "none", buffer_size |-> 0, nodes |-> <<>>, done |-> FALSE,
              instantiated |-> <<>>, buffer |-> <<>>]

InitRest ==
    /\ rets = <<>>
    /\ env = NoEnv
    /\ evlog = <<>>
    /\ outcome = "none"
    /\ graph = <<>>
    /\ program = NoProgram
    /\ render = <<>>
    /\ wave = <<>>

InitBack == operands = <<>> /\ InitRest

InitWith(leads, alphabet, maxlen) ==
    /\ lead \in leads
    /\ input \in SeqsUpTo(alphabet, maxlen)
    /\ pc = "start"
    /\ InitBack
    /\ tlead = <<0, 0>>
    /\ toff = 0
    /\ pos = <<0, 0>>
    /\ toks = <<>>
    /\ exprs = <<>>
    /\ groups = <<>>
    /\ number = [sign |-> "Positive", radix |-> 10, digits |-> <<>>, exponent |-> <<>>]
    /\ errs = <<>>
    /\ result = "none"
    /\ values = <<>>
    /\ overflowed = FALSE
    /\ snap = NoSnap

InitTok == InitWith({<<0, 0>>}, TokAlphabet, MaxLen)

NewTok == New("tokens")

NextTok == NewTok \/ TokNext

SpecTok == InitTok /\ [][NextTok]_vars

----------------------------------------------------------------------------
(* utf8.rs and the validity test of str::from_utf8. *)

is_continuation(c) == 128 <= c /\ c <= 191

\* parse_character's loop over the n continuation bytes after text[at + 1]:
\* the number of bytes consumed, and the code point when all n were read.
RECURSIVE read_continuation(_, _, _, _, _)
read_continuation(text, at, n, i, cp) ==
    IF i = n THEN [len |-> n + 1, complete |-> TRUE, cp |-> cp]
    ELSE IF at + 1 + i < Len(text) /\ is_continuation(text[at + 2 + i])
         THEN read_continuation(text, at, n, i + 1, cp * 64 + (text[at + 2 + i] % 64))
         ELSE [len |-> i + 1, complete |-> FALSE, cp |-> cp]

\* char::try_from(cp).ok(): a scalar value, not a surrogate, at most 10FFFF.
is_scalar_value(cp) == cp <= 1114111 /\ ~(55296 <= cp /\ cp <= 57343)

\* A parse_character that gives an incomplete sequence the length its lead
\* byte announces.
parse_character_announced(text, at) ==
    IF at >= Len(text) THEN [ok |-> FALSE, len |-> 0, cp |-> 0]
    ELSE LET c1 == text[at + 1] IN
         IF c1 <= 127 THEN [ok |-> TRUE, len |-> 1, cp |-> c1]
         ELSE IF c1 < 192 \/ c1 > 247 THEN [ok |-> FALSE, len |-> 1, cp |-> 0]
         ELSE LET n == IF c1 <= 223 THEN 1 ELSE IF c1 <= 239 THEN 2 ELSE 3
                  mincp == IF n = 1 THEN 128 ELSE IF n = 2 THEN 2048 ELSE 65536
                  cp0 == IF n = 1 THEN c1 % 32 ELSE IF n = 2 THEN c1 % 16 ELSE c1 % 8
                  r == read_continuation(text, at, n, 0, cp0)
              IN  IF ~r.complete THEN [ok |-> FALSE, len |-> n + 1, cp |-> 0]
                  ELSE [ok |-> r.cp >= mincp /\ is_scalar_value(r.cp), len |-> n + 1,
                        cp |-> r.cp]

\* parse_character on the bytes of `text` from index `at` (0-based):
\* [ok, len] for the (Option<char>, usize) it returns.
parse_character(text, at) ==
    IF at >= Len(text) THEN [ok |-> FALSE, len |-> 0, cp |-> 0]
    ELSE LET c1 == text[at + 1] IN
         IF c1 <= 127 THEN [ok |-> TRUE, len |-> 1, cp |-> c1]
         ELSE IF c1 < 192 \/ c1 > 247 THEN [ok |-> FALSE, len |-> 1, cp |-> 0]
         ELSE LET n == IF c1 <= 223 THEN 1 ELSE IF c1 <= 239 THEN 2 ELSE 3
                  mincp == IF n = 1 THEN 128 ELSE IF n = 2 THEN 2048 ELSE 65536
                  cp0 == IF n = 1 THEN c1 % 32 ELSE IF n = 2 THEN c1 % 16 ELSE c1 % 8
                  r == read_continuation(text, at, n, 0, cp0)
              IN  IF ~r.complete THEN [ok |-> FALSE, len |-> r.len, cp |-> 0]
                  ELSE [ok |-> r.cp >= mincp /\ is_scalar_value(r.cp), len |-> n + 1,
                        cp |-> r.cp]

\* str::from_utf8(text).is_ok(), as tok_str, tok_boxstr and
\* handle_error_token use it: every byte belongs to a well-formed sequence.
RECURSIVE valid_utf8_from(_, _)
valid_utf8_from(text, at) ==
    IF at >= Len(text) THEN TRUE
    ELSE LET c1 == text[at + 1]
             n == IF c1 <= 127 THEN 0
                  ELSE IF 194 <= c1 /\ c1 <= 223 THEN 1
                  ELSE IF 224 <= c1 /\ c1 <= 239 THEN 2
                  ELSE IF 240 <= c1 /\ c1 <= 244 THEN 3
                  ELSE 4
             lo2 == IF c1 = 224 THEN 160 ELSE IF c1 = 240 THEN 144 ELSE 128
             hi2 == IF c1 = 237 THEN 159 ELSE IF c1 = 244 THEN 143 ELSE 191
         IN  /\ n < 4
             /\ at + n < Len(text)
             /\ n >= 1 => (lo2 <= text[at + 2] /\ text[at + 2] <= hi2)
             /\ \A k \in 2..n : is_continuation(text[at + 1 + k])
             /\ valid_utf8_from(text, at + n + 1)

from_utf8_ok(text) == valid_utf8_from(text, 0)

----------------------------------------------------------------------------
(* sourcepos.rs: spans.  number.rs and units.rs: numeric literals. *)

\* Span::sub_span(from..) and Span::sub_span(..to) for in-range indices.
sub_span_from(span, from) == [start |-> WAddN(span.start, from), end |-> span.end]

sub_span_to(span, to) == [start |-> span.start, end |-> WAddN(span.start, to)]

sub_span_range(span, from, to) ==
    [start |-> WAddN(span.start, from), end |-> WAddN(span.start, to)]

\* A diagnostic as the ErrorHandler receives it: span, message, and the
\* values formatted into the message.
Diag(span, msg, args) == [pos |-> span, msg |-> msg, args |-> args]

I32Max == 2147483647

I32Min == -2147483647 - 1

\* i32::saturating_add
saturating_add(a, b) ==
    IF b > 0 /\ a > I32Max - b THEN I32Max
    ELSE IF b < 0 /\ a < I32Min - b THEN I32Min
    ELSE a + b

Tail2(t, k) == SubSeq(t, k + 1, Len(t))

RECURSIVE Reverse(_)
Reverse(t) == IF t = <<>> THEN <<>> ELSE Append(Reverse(Tail(t)), Head(t))

is_digit(c) == 48 <= c /\ c <= 57

is_hex_digit(c) == is_digit(c) \/ (97 <= c /\ c <= 102) \/ (65 <= c /\ c <= 70)

parse_digit(c) ==
    IF 48 <= c /\ c <= 57 THEN c - 48
    ELSE IF 97 <= c /\ c <= 122 THEN c - 97 + 10
    ELSE IF 65 <= c /\ c <= 90 THEN c - 65 + 10
    ELSE 255

starts_with_digit(t) == t # <<>> /\ is_digit(t[1])

starts_with_hex_digit(t) == t # <<>> /\ is_hex_digit(t[1])

\* The digit loop of parse_exponent from index i of t.  The u32 value
\* saturates far above i32::MAX and is clamped to i32 afterwards, so it is
\* kept as [v, big] with big standing for every value above i32::MAX.
RECURSIVE exponent_digits(_, _, _, _)
exponent_digits(t, i, acc, has_value) ==
    IF i < Len(t) /\ is_digit(t[i + 1])
    THEN LET d == t[i + 1] - 48
             next == IF acc.big \/ acc.v > (I32Max - d) \div 10
                     THEN [v |-> 0, big |-> TRUE]
                     ELSE [v |-> acc.v * 10 + d, big |-> FALSE]
         IN  exponent_digits(t, i + 1, next, TRUE)
    ELSE [rest |-> i, acc |-> acc, has_value |-> has_value]

\* The end of parse_exponent: r is the result of the digit loop, negative
\* tells a '-' sign.
exponent_result(span, negative, r) ==
    IF ~r.has_value
    THEN [ok |-> FALSE, exponent |-> <<>>, rest |-> r.rest,
          err |-> Diag(sub_span_to(span, r.rest), "missing exponent value", <<>>)]
    ELSE [ok |-> TRUE,
          exponent |-> <<IF negative
                         THEN IF r.acc.big THEN I32Min ELSE -r.acc.v
                         ELSE IF r.acc.big THEN I32Max ELSE r.acc.v>>,
          rest |-> r.rest, err |-> Diag(span, "", <<>>)]

\* parse_exponent: [ok, exponent (<<>> for None, <<v>> for Some), rest
\* (index in t where the remainder starts), err].
parse_exponent(t, span) ==
    IF Len(t) >= 2 /\ t[1] \in {101, 69} /\ (t[2] \in {43, 45} \/ is_digit(t[2]))
    THEN exponent_result(span, t[2] = 45,
             exponent_digits(t, 2,
                 [v |-> IF is_digit(t[2]) THEN t[2] - 48 ELSE 0, big |-> FALSE],
                 is_digit(t[2])))
    ELSE [ok |-> TRUE, exponent |-> <<>>, rest |-> 0, err |-> Diag(span, "", <<>>)]

\* The loop of parse_int from index i of t: digits are pushed most
\* significant first until a byte that is no digit of the radix.
RECURSIVE parse_int_loop(_, _, _, _, _)
parse_int_loop(radix, t, span, i, digits) ==
    IF i = Len(t)
    THEN [ok |-> TRUE, digits |-> Reverse(digits), rest |-> i, err |-> Diag(span, "", <<>>)]
    ELSE LET c == t[i + 1]
             d == parse_digit(c)
         IN  IF d >= radix
             THEN [ok |-> FALSE, digits |-> digits, rest |-> i,
                   err |-> Diag(sub_span_range(span, i, i + 1),
                                IF d < 10 THEN "invalid digit for base"
                                ELSE IF c = 46 THEN "non-integers not supported in base"
                                ELSE "unexpected character",
                                <<radix, c>>)]
             ELSE parse_int_loop(radix, t, span, i + 1, Append(digits, d))

\* The result of parse_int from the result r of its loop.
int_result(radix, r) ==
    [ok |-> r.ok, rest |-> r.rest, err |-> r.err,
     number |-> [radix |-> radix, digits |-> r.digits, exponent |-> <<>>]]

\* ParsedNumber::parse_int: the number left in self and the result.
parse_int(radix, t, span) == int_result(radix, parse_int_loop(radix, t, span, 0, <<>>))

\* Digits of t from index i, up to the first byte that is not a digit.
RECURSIVE digit_run(_, _)
digit_run(t, i) == IF i < Len(t) /\ is_digit(t[i + 1]) THEN digit_run(t, i + 1) ELSE i

DigitValues(t, from, to) == [k \in 1..(to - from) |-> t[from + k] - 48]

NoSpan == [start |-> <<0, 0>>, end |-> <<0, 0>>]

\* The second loop of parse_mantissa: the point is at index a, the digits
\* after it end at index b.
mantissa_fraction(t, a, b) ==
    IF b < Len(t) /\ t[b + 1] = 46
    THEN [ok |-> FALSE, digits |-> DigitValues(t, 0, a) \o DigitValues(t, a + 1, b),
          frac_digits |-> <<>>, rest |-> b,
          err |-> Diag([start |-> Wide(b), end |-> Wide(b + 1)], "unexpected extra '.'", <<>>)]
    ELSE [ok |-> TRUE, digits |-> DigitValues(t, 0, a) \o DigitValues(t, a + 1, b),
          frac_digits |-> <<b - (a + 1)>>, rest |-> b, err |-> Diag(NoSpan, "", <<>>)]

\* The first loop of parse_mantissa stopped at index a.
mantissa_at(t, a) ==
    IF a < Len(t) /\ t[a + 1] = 46
    THEN mantissa_fraction(t, a, digit_run(t, a + 1))
    ELSE [ok |-> TRUE, digits |-> DigitValues(t, 0, a), frac_digits |-> <<>>, rest |-> a,
          err |-> Diag(NoSpan, "", <<>>)]

\* ParsedNumber::parse_mantissa: digits most significant first, the count
\* of digits after the point (<<>> when there is no point), the rest.
parse_mantissa(toklen, t) == mantissa_at(t, digit_run(t, 0))

\* self.exponent at the end of parse_dec.
dec_exponent(frac_digits, exponent) ==
    IF frac_digits # <<>>
    THEN IF exponent # <<>>
         THEN IF exponent[1] = I32Min \/ exponent[1] = I32Max
              THEN exponent
              ELSE <<saturating_add(exponent[1], -frac_digits[1])>>
         ELSE <<-frac_digits[1]>>
    ELSE exponent

\* parse_dec after parse_exponent returned e.
dec_result(m, e) ==
    [ok |-> e.ok, rest |-> m.rest + e.rest, err |-> e.err,
     number |-> [radix |-> 10, digits |-> Reverse(m.digits),
                 exponent |-> IF e.ok THEN dec_exponent(m.frac_digits, e.exponent)
                              ELSE <<>>]]

\* parse_dec after parse_mantissa returned m.
dec_mantissa(t, span, m) ==
    IF ~m.ok
    THEN [ok |-> FALSE, rest |-> m.rest, err |-> m.err,
          number |-> [radix |-> 10, digits |-> m.digits, exponent |-> <<>>]]
    ELSE IF m.digits = <<>>
    THEN [ok |-> FALSE, rest |-> m.rest, err |-> Diag(span, "number has no digits", <<>>),
          number |-> [radix |-> 10, digits |-> m.digits, exponent |-> <<>>]]
    ELSE dec_result(m, parse_exponent(Tail2(t, m.rest), sub_span_from(span, m.rest)))

\* ParsedNumber::parse_dec.
parse_dec(t, span) == dec_mantissa(t, span, parse_mantissa(Len(t), t))

\* ParsedNumber::parse behind the sign: body is the text after it.
parse_unsigned(body, span) ==
    IF Len(body) >= 2 /\ body[1] = 48
          /\ body[2] \in {98, 66, 111, 79} /\ starts_with_digit(Tail2(body, 2))
    THEN [p |-> parse_int(IF body[2] \in {98, 66} THEN 2 ELSE 8, Tail2(body, 2), span),
          skip |-> 2]
    ELSE IF Len(body) >= 2 /\ body[1] = 48
          /\ body[2] \in {120, 88} /\ starts_with_hex_digit(Tail2(body, 2))
    THEN [p |-> parse_int(16, Tail2(body, 2), span), skip |-> 2]
    ELSE [p |-> parse_dec(body, span), skip |-> 0]

\* The result of ParsedNumber::parse from the sign, its length and the
\* result r of parse_unsigned.
signed_result(sign, skip, r) ==
    [ok |-> r.p.ok, rest |-> skip + r.skip + r.p.rest, err |-> r.p.err,
     number |-> [sign |-> sign, radix |-> r.p.number.radix,
                 digits |-> r.p.number.digits, exponent |-> r.p.number.exponent]]

\* ParsedNumber::parse on the text t of a token at `span`: the sign, the
\* number left in self, and the index in t at which the remainder starts.
ParsedNumber_parse(t, span) ==
    IF t # <<>> /\ t[1] \in {43, 45}
    THEN signed_result(IF t[1] = 45 THEN "Negative" ELSE "Positive", 1,
                       parse_unsigned(Tail(t), sub_span_from(span, 1)))
    ELSE signed_result("Positive", 0, parse_unsigned(t, sub_span_from(span, 0)))

\* Number of zero digits at the front of a digit sequence.
RECURSIVE leading_zeros(_)
leading_zeros(ds) ==
    IF ds # <<>> /\ Head(ds) = 0 THEN 1 + leading_zeros(Tail(ds)) ELSE 0

\* A trim that drops the low zeros and leaves the exponent as it was.
trim_low_keep_exponent(n, kept, low) == [n EXCEPT !.digits = Tail2(kept, low)]

\* The second half of trim: `kept` are the digits left by the truncation.
trim_low(n, kept, low) ==
    [n EXCEPT !.digits = Tail2(kept, low),
              !.exponent = <<saturating_add(n.exponent[1], low)>>]

trim_kept(n, kept) ==
    IF n.exponent # <<>> THEN trim_low(n, kept, leading_zeros(kept))
    ELSE [n EXCEPT !.digits = kept]

\* ParsedNumber::trim.  Digits are least significant first.
trim(n) ==
    trim_kept(n, SubSeq(n.digits, 1, Len(n.digits) - leading_zeros(Reverse(n.digits))))

\* Decimal digits of a natural number, as bytes.
RECURSIVE decimal(_)
decimal(n) == IF n < 10 THEN <<48 + n>> ELSE Append(decimal(n \div 10), 48 + (n % 10))

\* write!("e{:+}", exp)
format_exponent(exp) ==
    IF exp >= 0 THEN <<101, 43>> \o decimal(exp)
    ELSE IF exp = I32Min THEN <<101, 45>> \o Append(decimal(214748364), 56)
    ELSE <<101, 45>> \o decimal(-exp)

\* b"0123456789abcdef"[d]
digit_char(d) == IF d < 10 THEN 48 + d ELSE 97 + d - 10

\* ParsedNumber::to_string
to_string(n) ==
    (IF n.sign = "Negative" THEN <<45>> ELSE <<>>)
    \o (IF n.radix = 2 THEN <<48, 98>> ELSE IF n.radix = 8 THEN <<48, 111>>
        ELSE IF n.radix = 16 THEN <<48, 120>> ELSE <<>>)
    \o (IF n.digits = <<>> THEN <<48>>
        ELSE [k \in 1..Len(n.digits) |-> digit_char(n.digits[Len(n.digits) + 1 - k])])
    \o (IF n.exponent # <<>> THEN format_exponent(n.exponent[1]) ELSE <<>>)

\* units.rs: parse_prefix, for the ASCII prefixes a Number token can hold
\* (<<>> for None).
parse_prefix(c) ==
    IF c = 121 THEN <<-24>> ELSE IF c = 122 THEN <<-21>> ELSE IF c = 97 THEN <<-18>>
    ELSE IF c = 102 THEN <<-15>> ELSE IF c = 112 THEN <<-12>> ELSE IF c = 110 THEN <<-9>>
    ELSE IF c = 117 THEN <<-6>> ELSE IF c = 109 THEN <<-3>> ELSE IF c = 107 THEN <<3>>
    ELSE IF c = 77 THEN <<6>> ELSE IF c = 71 THEN <<9>> ELSE IF c = 84 THEN <<12>>
    ELSE IF c = 80 THEN <<15>> ELSE IF c = 69 THEN <<18>> ELSE IF c = 90 THEN <<21>>
    ELSE IF c = 89 THEN <<24>> ELSE <<>>

Units_scalar == [volt |-> 0, second |-> 0, radian |-> 0, decibel |-> 0]

\* Units::parse_without_prefix: <<>> or <<[allow_prefix, units]>>.
parse_without_prefix(t) ==
    IF t = <<86>> THEN <<[allow_prefix |-> TRUE, units |-> [Units_scalar EXCEPT !.volt = 1]]>>
    ELSE IF t = <<115>>
        THEN <<[allow_prefix |-> TRUE, units |-> [Units_scalar EXCEPT !.second = 1]]>>
    ELSE IF t = <<72, 122>>
        THEN <<[allow_prefix |-> TRUE, units |-> [Units_scalar EXCEPT !.second = -1]]>>
    ELSE IF t = <<114, 97, 100>>
        THEN <<[allow_prefix |-> TRUE, units |-> [Units_scalar EXCEPT !.radian = 1]]>>
    ELSE IF t = <<100, 66>>
        THEN <<[allow_prefix |-> FALSE, units |-> [Units_scalar EXCEPT !.decibel = 1]]>>
    ELSE <<>>

units_fail(e) == [ok |-> FALSE, units |-> Units_scalar, exponent |-> 0, err |-> e]

\* Units::parse for a non-empty text t: exponent is parse_prefix of its
\* first char, prefixed is parse_without_prefix of the rest, whole is
\* parse_without_prefix of all of t.
units_result(t, span, exponent, prefixed, whole) ==
    IF prefixed # <<>>
    THEN IF exponent = <<>>
         THEN units_fail(Diag(sub_span_to(span, 1), "unknown prefix", <<>>))
         ELSE IF ~prefixed[1].allow_prefix
         THEN units_fail(Diag(span, "metric prefix not allowed with units", <<>>))
         ELSE [ok |-> TRUE, units |-> prefixed[1].units, exponent |-> exponent[1],
               err |-> Diag(span, "", <<>>)]
    ELSE IF exponent # <<>> /\ Len(t) > 1
    THEN units_fail(Diag(sub_span_from(span, 1), "unknown units", <<>>))
    ELSE IF whole # <<>>
    THEN [ok |-> TRUE, units |-> whole[1].units, exponent |-> 0, err |-> Diag(span, "", <<>>)]
    ELSE units_fail(Diag(span, "unknown units", <<>>))

\* Units::parse
Units_parse(t, span) ==
    IF t = <<>>
    THEN [ok |-> TRUE, units |-> Units_scalar, exponent |-> 0, err |-> Diag(span, "", <<>>)]
    ELSE units_result(t, span, parse_prefix(t[1]), parse_without_prefix(Tail(t)),
                      parse_without_prefix(t))

----------------------------------------------------------------------------
(* parser.rs: Parser. *)

\* An SExpr.  `text` is the symbol's name or the number's string, `units`
\* the units of a Content::Units, `items` the children of a Content::List.
SExpr(span, kind, text, units, items) ==
    [pos |-> span, kind |-> kind, text |-> text, units |-> units, items |-> items]

\* tok_str / tok_boxstr: the panic on text that is not UTF-8.
tok_str_panics(tok) == ~from_utf8_ok(tok.text)

\* handle_error_token: the diagnostic for an Error token.
handle_error_token(span, text) ==
    IF from_utf8_ok(text) /\ text # <<>>
    THEN LET c == parse_character(text, 0).cp IN
         IF c <= 31 \/ (127 <= c /\ c <= 159)
         THEN Diag(span, "unexpected control character U+", <<c>>)
         ELSE IF c <= 127
         THEN IF c = 39 THEN Diag(span, "unexpected character <'>", <<>>)
              ELSE Diag(span, "unexpected character", <<c>>)
         ELSE Diag(span, "unexpected Unicode character U+", <<c>>)
    ELSE Diag(span, "invalid UTF-8 text (byte sequence)", text)

\* The end of parse_number: the prefix exponent is folded into the number n,
\* which is trimmed and printed.
number_content(trimmed, units) ==
    [ok |-> TRUE, number |-> trimmed, err |-> Diag(NoSpan, "", <<>>),
     kind |-> IF units = Units_scalar THEN "Number" ELSE "Units",
     text |-> to_string(trimmed), units |-> units]

number_failure(n, err) ==
    [ok |-> FALSE, number |-> n, err |-> err,
     kind |-> "Number", text |-> <<>>, units |-> Units_scalar]

\* parse_number after Units::parse returned u for the rest of the token.
number_units(n, u) ==
    IF ~u.ok THEN number_failure(n, u.err)
    ELSE IF u.exponent # 0
    THEN number_content(
             trim([n EXCEPT !.exponent =
                      <<saturating_add(IF n.exponent = <<>> THEN 0 ELSE n.exponent[1],
                                       u.exponent)>>]),
             u.units)
    ELSE number_content(trim(n), u.units)

\* parse_number after self.number.parse returned r.
number_parsed(tok, tokpos, r) ==
    IF ~r.ok THEN number_failure(r.number, r.err)
    ELSE number_units(r.number,
                      Units_parse(Tail2(tok.text, r.rest), sub_span_from(tokpos, r.rest)))

\* Parser::parse_number: the content of the expression, the number left in
\* self.number, and the diagnostic when the token is malformed.
parse_number(tok) ==
    number_parsed(tok, source_pos(tok), ParsedNumber_parse(tok.text, source_pos(tok)))

\* An End arm that reports every end of the token stream as None.
end_result_none(gs) == "None"

\* The Type::End arm of Parser::parse.
end_result(gs) == IF gs = <<>> THEN "None" ELSE "Incomplete"

\* A list span that starts behind the '('.
list_span_inner(open, close) == [start |-> open.end, end |-> close.end]

\* The span of the list closed by the ')' at `close` whose '(' is at `open`.
list_span(open, close) == [start |-> open.start, end |-> close.end]

\* A ParenClose arm that returns Error without a diagnostic.
extra_paren_silent(es, span) == es

\* The ParenClose arm with an empty group stack: the diagnostics afterwards.
extra_paren(es, span) == Append(es, Diag(span, "extra ')'", <<>>))

NoExpr == SExpr(NoSpan, "None", <<>>, Units_scalar, <<>>)

\* A return of Parser::parse with result res (and expression v).
parse_return(s, res, v) == [s EXCEPT !.result = res, !.value = v]

\* Parser::parse from the parser and tokenizer state st: the loop runs until
\* one of its arms returns.  The result carries the state left behind, the
\* ParseResult and, in `snap`, the token read last and the parser state
\* when it was read.
RECURSIVE Parser_parse(_)

\* A complete expression: returned at top level, pushed inside a list.
parse_push(s, expr) ==
    IF s.groups = <<>> THEN parse_return(s, "Value", expr)
    ELSE Parser_parse([s EXCEPT !.exprs = Append(s.exprs, expr)])

\* The Number arm, n being the result of parse_number.
number_arm(s, span, n) ==
    IF ~n.ok
    THEN parse_return([s EXCEPT !.number = n.number, !.errs = Append(s.errs, n.err)],
                      "Error", NoExpr)
    ELSE parse_push([s EXCEPT !.number = n.number],
                    SExpr(span, n.kind, n.text, n.units, <<>>))

\* The ParenClose arm when groups.pop() returned the frame g.
close_arm(s, span, g) ==
    parse_push([s EXCEPT !.groups = SubSeq(s.groups, 1, Len(s.groups) - 1),
                         !.exprs = SubSeq(s.exprs, 1, g.offset)],
               SExpr(list_span(g.pos, span), "List", <<>>, Units_scalar,
                     Tail2(s.exprs, g.offset)))

\* The match on tok.ty.
parse_arm(s, tok, span) ==
    IF tok.ty = "End" THEN parse_return(s, end_result(s.groups), NoExpr)
    ELSE IF tok.ty = "Error"
        THEN parse_return([s EXCEPT !.errs = Append(s.errs, handle_error_token(span, tok.text))],
                          "Error", NoExpr)
    ELSE IF tok.ty = "Comment" THEN Parser_parse(s)
    ELSE IF tok.ty = "Symbol"
        THEN IF tok_str_panics(tok) THEN parse_return(s, "Panic", NoExpr)
             ELSE parse_push(s, SExpr(span, "Symbol", tok.text, Units_scalar, <<>>))
    ELSE IF tok.ty = "Number"
        THEN IF tok_str_panics(tok) THEN parse_return(s, "Panic", NoExpr)
             ELSE number_arm(s, span, parse_number(tok))
    ELSE IF tok.ty = "ParenOpen"
        THEN Parser_parse([s EXCEPT !.groups = Append(s.groups,
                               [pos |-> span, offset |-> Len(s.exprs)])])
    ELSE IF s.groups = <<>>
        THEN parse_return([s EXCEPT !.errs = extra_paren(s.errs, span)], "Error", NoExpr)
    ELSE close_arm(s, span, s.groups[Len(s.groups)])

\* tokenizer.next() returned r: the tokenizer state moves on, the token is
\* recorded and matched.
parse_token(st, r) ==
    parse_arm([st EXCEPT !.tlead = r.tlead, !.toff = r.toff, !.pos = r.pos,
                         !.toks = Append(st.toks, r.tok),
                         !.overflow = st.overflow \/ r.overflow,
                         !.snap = [op |-> "parse", tok |-> r.tok, exprs |-> st.exprs,
                                   groups |-> st.groups, errs |-> st.errs]],
              r.tok, source_pos(r.tok))

Parser_parse(st) == parse_token(st, Tokenizer_next(st.tlead, st.toff, st.pos))

\* Parser::finish: the diagnostics it hands to the ErrorHandler.  The loop
\* over the groups, innermost first, returns after its first iteration.
Parser_finish(gs) ==
    IF gs = <<>> THEN <<>> ELSE <<Diag(gs[Len(gs)].pos, "missing ')'", <<>>)>>

\* run_file's match on the result r of a Parser::parse call; o tells what
\* an overflowing Pos addition did.
ParseReturned(r, o) ==
    IF o = "panic" \/ r.result = "Panic"
    THEN /\ pc' = "panicked"
         /\ UNCHANGED <<tlead, toff, pos, toks, exprs, groups, number, errs,
                        result, values, overflowed, snap>>
    ELSE /\ tlead' = r.tlead
         /\ toff' = r.toff
         /\ pos' = r.pos
         /\ toks' = r.toks
         /\ exprs' = r.exprs
         /\ groups' = r.groups
         /\ number' = r.number
         /\ errs' = r.errs
         /\ result' = r.result
         /\ snap' = r.snap
         /\ overflowed' = (overflowed \/ r.overflow)
         /\ values' = IF r.result = "Value" THEN Append(values, r.value) ELSE values
         /\ pc' = IF r.result = "None" THEN "done"
                  ELSE IF r.result = "Incomplete" THEN "finish"
                  ELSE IF r.result = "Error" THEN "failed"
                  ELSE "parse"

ParseCall(r) == \E o \in Outcomes(r.overflow) : ParseReturned(r, o)

\* One Parser::parse call of the loop in run_file, and run_file's match on
\* its result.
Parse ==
    /\ pc = "parse"
    /\ ParseCall(Parser_parse([tlead |-> tlead, toff |-> toff, pos |-> pos, toks |-> toks,
                               exprs |-> exprs, groups |-> groups, number |-> number,
                               errs |-> errs, overflow |-> FALSE, snap |-> snap,
                               result |-> "none", value |-> NoExpr]))
    /\ UNCHANGED <<lead, input>>
    /\ UNCHANGED backvars

\* The Parser::finish call run_file makes after an Incomplete result.
Finish ==
    /\ pc = "finish"
    /\ errs' = errs \o Parser_finish(groups)
    /\ snap' = [op |-> "finish", tok |-> snap.tok, exprs |-> exprs, groups |-> groups,
                errs |-> errs]
    /\ pc' = "done"
    /\ UNCHANGED <<lead, input, tlead, toff, pos, toks, exprs, groups, number, result, values,
                   overflowed>>
    /\ UNCHANGED backvars

\* space LF ';' '(' ')' 's' '1' '.' and the byte FF
ParseAlphabet == {32, 10, 59, 40, 41, 115, 49, 46, 255}

Init == InitWith({<<0, 0>>}, ParseAlphabet, MaxParseLen)

NewParser == New("parse")

Next == NewParser \/ Parse \/ Finish

Spec == Init /\ [][Next]_vars

\* Texts of about 2^32 bytes: 2^32 - 3 .. 2^32 spaces, then `input`.
BigLeads == {<<Limb - 1, Limb - 3>>, <<Limb - 1, Limb - 2>>, <<Limb - 1, Limb - 1>>, <<Limb, 0>>}

\* space '(' ')' 's'
BigAlphabet == {32, 40, 41, 115}

InitBig == InitWith(BigLeads, BigAlphabet, MaxBigLen)

SpecBig == InitBig /\ [][Next]_vars

----------------------------------------------------------------------------
(* Claims about the tokenizer (checked under SpecTok). *)

\* Value of a wide number that is known to be small.
WVal(a) == a[1] * Limb + a[2]

\* The 0-based offset in the source text that a token's Pos stands for
\* (Pos counts from 1), when there is no leading run.
TokStart(i) == WVal(toks[i].pos) - 1

TokEnd(i) == TokStart(i) + Len(toks[i].text)

IsEnd(i) == toks[i].ty = "End"

Last(s) == s[Len(s)]

C1_State ==
    /\ \A i \in 1..Len(toks) : ~IsEnd(i) => Len(toks[i].text) >= 1
    /\ Len(toks) >= Len(input) + 1 => \E k \in 1..(Len(input) + 1) : IsEnd(k)
    /\ \A i \in 1..Len(toks) : \A k \in i..Len(toks) : IsEnd(i) => toks[k] = toks[i]

C1_Step ==
    (toks # <<>> /\ Last(toks).ty = "End" /\ toks' # toks)
        => /\ toks' = Append(toks, Last(toks))
           /\ <<tlead, toff, pos>>' = <<tlead, toff, pos>>

\* C1: repeated Tokenizer::next calls give a finite token sequence that ends
\* with End: every token before it is at least one byte long, End comes
\* within Len(input) + 1 calls, and every call after an End returns the same
\* End token and leaves the tokenizer as it was.
C1_TokensTerminateWithEnd == []C1_State /\ [][C1_Step]_vars

\* C1 witness: a text with a token in it has been read to its End twice more.
C1_Witness ==
    /\ Len(toks) >= 3
    /\ ~IsEnd(1)
    /\ IsEnd(Len(toks) - 1)
    /\ IsEnd(Len(toks))

\* C2: the tokens returned so far have monotonic, non-overlapping spans
\* inside the text, each token's text is the input at its span, every byte
\* between two tokens (and before the first) is whitespace, and End is
\* positioned at the end of the input.
C2_SpansCoverInput ==
    lead = <<0, 0>> =>
        \A i \in 1..Len(toks) :
            LET prev == IF i = 1 THEN 0 ELSE TokEnd(i - 1) IN
            /\ prev <= TokStart(i)
            /\ TokEnd(i) <= Len(input)
            /\ toks[i].text = SubSeq(input, TokStart(i) + 1, TokEnd(i))
            /\ \A k \in (prev + 1)..TokStart(i) : input[k] \in {32, 9, 10, 11, 12, 13}
            /\ IsEnd(i) => TokStart(i) = Len(input)

\* C2 witness: two tokens with whitespace between them, then End.
C2_Witness ==
    /\ Len(toks) = 3
    /\ ~IsEnd(1)
    /\ ~IsEnd(2)
    /\ IsEnd(3)
    /\ TokEnd(1) < TokStart(2)

\* C3: every token that is not an Error token has valid UTF-8 text.
C3_NonErrorTokensAreUTF8 ==
    \A i \in 1..Len(toks) : toks[i].ty # "Error" => from_utf8_ok(toks[i].text)

\* C4: an Error token is as long as parse_character reports for the bytes
\* that start at it (never zero).
C4_ErrorTokenLength ==
    lead = <<0, 0>> =>
        \A i \in 1..Len(toks) :
            toks[i].ty = "Error" =>
                /\ Len(toks[i].text) = parse_character(input, TokStart(i)).len
                /\ Len(toks[i].text) >= 1

\* The bytes of the text that follow the one at offset s, as far as they
\* are symbol bytes.
SymbolRunEnd(s) ==
    CHOOSE e \in (s + 1)..Len(input) :
        /\ \A k \in (s + 2)..e : is_symbol(input[k])
        /\ e < Len(input) => ~is_symbol(input[e + 1])

IsDigitAt(k) == k <= Len(input) /\ input[k] \in 48..57

\* C5: a token that starts with '+' or '-' is a Number exactly when a digit
\* follows, or '.' and then a digit; one that starts with '.' is a Number
\* exactly when a digit follows; otherwise it is a Symbol; and it extends
\* over the maximal run of symbol bytes.
C5_SignAndDotTokens ==
    lead = <<0, 0>> =>
        \A i \in 1..Len(toks) :
            LET s == TokStart(i) IN
            (~IsEnd(i) /\ input[s + 1] \in {43, 45, 46}) =>
                LET isnum ==
                        IF input[s + 1] = 46 THEN IsDigitAt(s + 2)
                        ELSE \/ IsDigitAt(s + 2)
                             \/ (s + 2 <= Len(input) /\ input[s + 2] = 46 /\ IsDigitAt(s + 3))
                IN  /\ toks[i].ty = (IF isnum THEN "Number" ELSE "Symbol")
                    /\ TokEnd(i) = SymbolRunEnd(s)

\* C5 witness: the text "+.1" was read as one Number token.
C5_Witness ==
    \E i \in 1..Len(toks) : toks[i].text = <<43, 46, 49>> /\ toks[i].ty = "Number"

----------------------------------------------------------------------------
(* Claims about the parser (checked under Spec). *)

\* C7, the End arm: the result is None exactly when no list is open and
\* Incomplete exactly when one is, and the arm leaves the diagnostics, the
\* pending expressions and the frames as they were when End was read.
C7_State ==
    (snap.op = "parse" /\ snap.tok.ty = "End") =>
        /\ result \in {"None", "Incomplete"}
        /\ result = "None" <=> snap.groups = <<>>
        /\ result = "Incomplete" <=> Len(snap.groups) >= 1
        /\ errs = snap.errs
        /\ exprs = snap.exprs
        /\ groups = snap.groups

\* C7, the whole call: a parse call that returns None or Incomplete has
\* emitted no diagnostic.
C7_Step == (pc = "parse" /\ pc' \in {"done", "finish"}) => errs' = errs

\* C7: when Parser::parse reaches End it returns None iff the stack of
\* open-list frames is empty and Incomplete iff a '(' is still unclosed,
\* emits no diagnostic and leaves the pending state unchanged.
C7_EndOfStream == []C7_State /\ [][C7_Step]_vars

\* C7 witness: parse returned Incomplete inside a list with a pending
\* expression.
C7_Witness ==
    /\ snap.op = "parse"
    /\ snap.tok.ty = "End"
    /\ result = "Incomplete"
    /\ exprs # <<>>

\* Every token of the text up to End, as Tokenizer::next returns them from
\* the tokenizer state (off, p).
RECURSIVE AllTokens(_, _)
AllTokens(off, p) ==
    LET r == Tokenizer_next(<<0, 0>>, off, p) IN
    IF r.tok.ty = "End" THEN <<>> ELSE <<r.tok>> \o AllTokens(r.toff, r.pos)

RECURSIVE WithoutComments(_)
WithoutComments(ts) ==
    IF ts = <<>> THEN <<>>
    ELSE IF Head(ts).ty = "Comment" THEN WithoutComments(Tail(ts))
    ELSE <<Head(ts)>> \o WithoutComments(Tail(ts))

\* Nesting depth after the first n tokens of ts.
Depth(ts, n) ==
    Cardinality({k \in 1..n : ts[k].ty = "ParenOpen"})
        - Cardinality({k \in 1..n : ts[k].ty = "ParenClose"})

Balanced(ts) == Depth(ts, Len(ts)) = 0 /\ \A n \in 1..Len(ts) : Depth(ts, n) >= 0

WellFormed(ts) ==
    /\ Balanced(ts)
    /\ \A k \in 1..Len(ts) : ts[k].ty # "Error"
    /\ \A k \in 1..Len(ts) : ts[k].ty = "Number" => parse_number(ts[k]).ok

\* The forms of a well-formed token sequence by recursive descent: the form
\* that starts at token i, and the items of a list up to its ')'.
RECURSIVE FormAt(_, _), ItemsAt(_, _)
FormAt(ts, i) ==
    IF ts[i].ty = "ParenOpen"
    THEN LET r == ItemsAt(ts, i + 1) IN
         [expr |-> SExpr([start |-> source_pos(ts[i]).start,
                          end |-> source_pos(ts[r.close]).end],
                         "List", <<>>, Units_scalar, r.items),
          next |-> r.close + 1]
    ELSE IF ts[i].ty = "Symbol"
    THEN [expr |-> SExpr(source_pos(ts[i]), "Symbol", ts[i].text, Units_scalar, <<>>),
          next |-> i + 1]
    ELSE LET n == parse_number(ts[i]) IN
         [expr |-> SExpr(source_pos(ts[i]), n.kind, n.text, n.units, <<>>), next |-> i + 1]

ItemsAt(ts, i) ==
    IF ts[i].ty = "ParenClose" THEN [items |-> <<>>, close |-> i]
    ELSE LET e == FormAt(ts, i)
             r == ItemsAt(ts, e.next)
         IN  [items |-> <<e.expr>> \o r.items, close |-> r.close]

RECURSIVE FormsFrom(_, _)
FormsFrom(ts, i) ==
    IF i > Len(ts) THEN <<>>
    ELSE LET e == FormAt(ts, i) IN <<e.expr>> \o FormsFrom(ts, e.next)

SourceTokens == WithoutComments(AllTokens(0, <<0, 1>>))

SourceForms == FormsFrom(SourceTokens, 1)

C8_State ==
    (pc # "start" /\ WellFormed(SourceTokens)) =>
        /\ pc \in {"parse", "done"}
        /\ Len(values) <= Len(SourceForms)
        /\ values = SubSeq(SourceForms, 1, Len(values))
        /\ pc = "parse" => result \in {"none", "Value"}
        /\ pc = "done" => (result = "None" /\ values = SourceForms)

C8_Step ==
    (pc = "parse" /\ WellFormed(SourceTokens)) =>
        \/ /\ result' = "Value"
           /\ Len(values) < Len(SourceForms)
           /\ values' = Append(values, SourceForms[Len(values) + 1])
        \/ /\ result' = "None"
           /\ values' = values
           /\ values = SourceForms

\* C8: for a text whose tokens are balanced and hold no Error and no
\* malformed Number, the parse calls return one Value per top-level form,
\* in source order, then None; the expressions are those of the recursive
\* reading of the tokens: children in order and nested as the parentheses,
\* list spans from '(' to the matching ')', comments left out.
C8_OneValuePerForm == []C8_State /\ [][C8_Step]_vars

\* C8 witness: a list with two children, the second a list itself, was
\* returned before None.
C8_Witness ==
    /\ pc = "done"
    /\ result = "None"
    /\ Len(values) = 1
    /\ values[1].kind = "List"
    /\ Len(values[1].items) = 2
    /\ values[1].items[1].kind = "Symbol"
    /\ values[1].items[2].kind = "List"

\* C9: Parser::finish after Incomplete emits one `missing ')'` diagnostic
\* for every unclosed frame, at the span of that frame's '(', and nothing
\* else.
C9_FinishReportsEveryFrame ==
    snap.op = "finish" =>
        /\ Len(groups) >= 1
        /\ Len(errs) = Len(snap.errs) + Len(groups)
        /\ SubSeq(errs, 1, Len(snap.errs)) = snap.errs
        /\ \A i \in 1..Len(groups) :
              \E k \in (Len(snap.errs) + 1)..Len(errs) :
                  errs[k] = Diag(groups[i].pos, "missing ')'", <<>>)

\* C10: a ')' read while no list is open makes parse emit the one
\* diagnostic `extra ')'` at the token's span and return Error, with the
\* frame stack and the pending expressions empty before and after.
C10_ExtraParen ==
    (snap.op = "parse" /\ snap.tok.ty = "ParenClose" /\ snap.groups = <<>>) =>
        /\ result = "Error"
        /\ errs = Append(snap.errs, Diag(source_pos(snap.tok), "extra ')'", <<>>))
        /\ snap.exprs = <<>>
        /\ groups = <<>>
        /\ exprs = <<>>

\* C10 witness: a ')' was read at top level after a complete form.
C10_Witness ==
    /\ snap.op = "parse"
    /\ snap.tok.ty = "ParenClose"
    /\ snap.groups = <<>>
    /\ values # <<>>
    /\ result = "Error"

----------------------------------------------------------------------------
(* Claim about the size limit of the text (checked under SpecBig). *)

\* The length of the source text.
TextLen == WAddN(lead, Len(input))

\* C6: for a text of 2^32 - 1 bytes or more the construction of the
\* tokenizer fails (no tokenizer exists, run_file has failed), and no Pos
\* is ever computed by a u32 addition that overflows, be it by panic or by
\* wrapping around.
C6_TooMuchText ==
    /\ (pc # "start" /\ WLeq(U32Max, TextLen)) => (pc = "failed" /\ pos = <<0, 0>>)
    /\ pc # "panicked"
    /\ ~overflowed

----------------------------------------------------------------------------
(* units.rs: the algebra of units. *)

I8Min == -128

I8Max == 127

\* i8::overflowing_add: the wrapped sum and whether it overflowed.
overflowing_add(x, y) ==
    [value |-> ((x + y - I8Min) % 256) + I8Min,
     overflow |-> x + y < I8Min \/ x + y > I8Max]

\* The end of Units::multiply, from the four overflowing sums.
multiply_result(v, s, r, d) ==
    IF v.overflow \/ s.overflow \/ r.overflow \/ d.overflow
    THEN [ok |-> FALSE, units |-> Units_scalar]
    ELSE [ok |-> TRUE,
          units |-> [volt |-> v.value, second |-> s.value, radian |-> r.value,
                     decibel |-> d.value]]

\* Units::multiply.  The radian and decibel sums take self.volt as their
\* left operand.
Units_multiply(self, other) ==
    multiply_result(overflowing_add(self.volt, other.volt),
                    overflowing_add(self.second, other.second),
                    overflowing_add(self.volt, other.radian),
                    overflowing_add(self.volt, other.decibel))

\* Units::multiply applied to the Ok value of an earlier product.
multiply_chain(r, other) ==
    IF r.ok THEN Units_multiply(r.units, other) ELSE r

Units_of(v, s, r, d) == [volt |-> v, second |-> s, radian |-> r, decibel |-> d]

\* The units the products are taken of: the scalar, the five named units,
\* the ends of the i8 range and two compound units.
UnitSamples ==
    {Units_scalar, Units_of(1, 0, 0, 0), Units_of(0, 1, 0, 0), Units_of(0, -1, 0, 0),
     Units_of(0, 0, 1, 0), Units_of(0, 0, 0, 1), Units_of(I8Max, 0, 0, 0),
     Units_of(I8Min, 0, 0, 0), Units_of(0, I8Max, 0, 0), Units_of(0, 0, I8Min, 0),
     Units_of(1, -1, 2, 0), Units_of(-1, 0, 1, 3)}

InitUnits ==
    /\ lead = <<0, 0>>
    /\ input = <<>>
    /\ pc = "units"
    /\ InitFront
    /\ operands \in [a : UnitSamples, b : UnitSamples, c : UnitSamples]
    /\ InitRest

\* The products of two of the operands, in both orders, and with the scalar.
MultiplyPair ==
    /\ pc = "units"
    /\ rets' = [ab |-> Units_multiply(operands.a, operands.b),
                ba |-> Units_multiply(operands.b, operands.a),
                as |-> Units_multiply(operands.a, Units_scalar),
                sa |-> Units_multiply(Units_scalar, operands.a)]
    /\ pc' = "units3"
    /\ UNCHANGED <<frontvarsButPc, operands, env, evlog, outcome, graph, program, render, wave>>

\* The products of all three operands, grouped to the left and to the right.
MultiplyTriple ==
    /\ pc = "units3"
    /\ rets' = [ab |-> rets.ab, ba |-> rets.ba, as |-> rets.as, sa |-> rets.sa,
                ab_c |-> multiply_chain(rets.ab, operands.c),
                a_bc |-> LET bc == Units_multiply(operands.b, operands.c)
                         IN  IF bc.ok THEN Units_multiply(operands.a, bc.units) ELSE bc]
    /\ pc' = "done"
    /\ UNCHANGED <<frontvarsButPc, operands, env, evlog, outcome, graph, program, render, wave>>

NextUnits == MultiplyPair \/ MultiplyTriple

SpecUnits == InitUnits /\ [][NextUnits]_vars

----------------------------------------------------------------------------
(* number.rs: a literal parsed, trimmed, printed and parsed again. *)

MaxNumLen == 5       \* longest literal drawn from NumAlphabet

\* '0' '1' '.' 'e' '-' '+' 'x' 'A'
NumAlphabet == {48, 49, 46, 101, 45, 43, 120, 65}

\* "e2147483646", "e2147483647", "e-2147483648", "e99999999999"
ExponentTexts ==
    {<<101, 50, 49, 52, 55, 52, 56, 51, 54, 52, 54>>,
     <<101, 50, 49, 52, 55, 52, 56, 51, 54, 52, 55>>,
     <<101, 45, 50, 49, 52, 55, 52, 56, 51, 54, 52, 56>>,
     <<101, 57, 57, 57, 57, 57, 57, 57, 57, 57, 57, 57>>}

\* "1", "10", "100", "0.10", "010.0", "1.5"
MantissaTexts ==
    {<<49>>, <<49, 48>>, <<49, 48, 48>>, <<48, 46, 49, 48>>, <<48, 49, 48, 46, 48>>,
     <<49, 46, 53>>}

\* Literals whose exponent is at an end of the i32 range.
BigExponentTexts == {m \o e : m \in MantissaTexts, e \in ExponentTexts}

\* The span of a text that starts at Pos(1).
text_span(t) == [start |-> Wide(1), end |-> Wide(1 + Len(t))]

InitNum ==
    /\ lead = <<0, 0>>
    /\ input = <<>>
    /\ pc = "number"
    /\ InitFront
    /\ operands \in {[text |-> t] : t \in SeqsUpTo(NumAlphabet, MaxNumLen) \cup BigExponentTexts}
    /\ InitRest

\* ParsedNumber::parse on the literal.
NumParse ==
    /\ pc = "number"
    /\ rets' = [parsed |-> ParsedNumber_parse(operands.text, text_span(operands.text))]
    /\ pc' = IF rets'.parsed.ok THEN "trim" ELSE "done"
    /\ UNCHANGED <<frontvarsButPc, operands, env, evlog, outcome, graph, program, render, wave>>

\* ParsedNumber::trim on the parsed number.
NumTrim ==
    /\ pc = "trim"
    /\ rets' = [parsed |-> rets.parsed, trimmed |-> trim(rets.parsed.number)]
    /\ pc' = "format"
    /\ UNCHANGED <<frontvarsButPc, operands, env, evlog, outcome, graph, program, render, wave>>

\* ParsedNumber::to_string on the trimmed number.
NumToString ==
    /\ pc = "format"
    /\ rets' = [parsed |-> rets.parsed, trimmed |-> rets.trimmed,
                text |-> to_string(rets.trimmed)]
    /\ pc' = "reparse"
    /\ UNCHANGED <<frontvarsButPc, operands, env, evlog, outcome, graph, program, render, wave>>

\* The second parse and trim: r is what ParsedNumber::parse returned.
reparsed(prev, r) ==
    [parsed |-> prev.parsed, trimmed |-> prev.trimmed, text |-> prev.text,
     again |-> r, retrimmed |-> trim(r.number)]

\* ParsedNumber::parse and trim on the printed text.
NumReparse ==
    /\ pc = "reparse"
    /\ rets' = reparsed(rets, ParsedNumber_parse(rets.text, text_span(rets.text)))
    /\ pc' = "done"
    /\ UNCHANGED <<frontvarsButPc, operands, env, evlog, outcome, graph, program, render, wave>>

NextNum == NumParse \/ NumTrim \/ NumToString \/ NumReparse

SpecNum == InitNum /\ [][NextNum]_vars

----------------------------------------------------------------------------
(* signal/graph.rs and signal/program.rs: the graph, its compilation into a
   Program and the rendering of buffers.  A SignalRef is the number it
   holds; node k of a Vec is element k + 1 of the sequence. *)

MaxNodes == 4        \* most nodes added to a graph
MaxRenders == 3      \* most Program::render calls on one program
MaxStops == 2        \* most State::stop calls followed in one render call
MaxWrites == 3       \* most Writer::write calls on one writer

\* The nodes of signal/ops.rs and signal/envelope.rs used here, with the
\* number of inputs each declares.
NodeKinds == {"Noise", "Envelope", "Oscillator", "Saturate", "Multiply"}

input_count(kind) ==
    IF kind \in {"Noise", "Envelope"} THEN 0 ELSE IF kind = "Multiply" THEN 2 ELSE 1

GraphNode(kind, inputs) == [kind |-> kind, inputs |-> inputs]

\* Node::instantiate: the nodes defined with op! return Unimplemented.
instantiate_ok(kind) == kind # "Saturate"

\* A Graph::add that does not look at the inputs of the node.
Graph_add_unchecked(nodes, node) ==
    [panic |-> FALSE, nodes |-> Append(nodes, node), ref |-> Len(nodes)]

\* Graph::add: panics when an input is not the index of an earlier node,
\* else pushes the node and returns its index.
Graph_add(nodes, node) ==
    IF \E k \in 1..Len(node.inputs) : node.inputs[k] >= Len(nodes)
    THEN [panic |-> TRUE, nodes |-> nodes, ref |-> 0]
    ELSE [panic |-> FALSE, nodes |-> Append(nodes, node), ref |-> Len(nodes)]

\* Program::new, NodeState: Unvisited, Visiting, and Visited(k) as k >= 0.
Unvisited == -2

Visiting == -1

StackItem(sig, action) == [sig |-> sig, action |-> action]

RECURSIVE push_inputs(_, _, _)
push_inputs(stack, inputs, k) ==
    IF k > Len(inputs) THEN stack
    ELSE push_inputs(Append(stack, StackItem(inputs[k], "Pre")), inputs, k + 1)

dfs_fail(st, why) == [st EXCEPT !.state = why, !.stack = <<>>]

\* A Pre arm that visits a node again although it is Visited.
pre_arm_revisit(gnodes, st, sig) ==
    IF st.states[sig + 1] = Visiting THEN dfs_fail(st, "ContainsLoop")
    ELSE [st EXCEPT !.states[sig + 1] = Visiting,
                    !.stack = push_inputs(Append(st.stack, StackItem(sig, "Post")),
                                          gnodes[sig + 1].inputs, 1)]

\* The Pre arm of the loop in Program::new; st.stack is the stack after the pop.
pre_arm(gnodes, st, sig) ==
    IF st.states[sig + 1] = Unvisited
    THEN [st EXCEPT !.states[sig + 1] = Visiting,
                    !.stack = push_inputs(Append(st.stack, StackItem(sig, "Post")),
                                          gnodes[sig + 1].inputs, 1)]
    ELSE IF st.states[sig + 1] = Visiting THEN dfs_fail(st, "ContainsLoop")
    ELSE st

\* The input array of the Post arm, from the states after the node itself
\* became Visited.
input_array(states, inputs) == [n \in 1..Len(inputs) |-> states[inputs[n] + 1]]

\* The Post arm after the node became Visited: `states` are the states
\* with that update, `inputs` the inputs of the node.
post_visited(st, sig, kind, inputs, states) ==
    IF Len(inputs) > 4 \/ \E n \in 1..Len(inputs) : states[inputs[n] + 1] < 0
    THEN dfs_fail(st, "Panic")
    ELSE IF ~instantiate_ok(kind)
    THEN dfs_fail([st EXCEPT !.states = states,
                             !.instantiated = Append(st.instantiated, sig)],
                  "Unimplemented")
    ELSE [st EXCEPT !.states = states,
                    !.instantiated = Append(st.instantiated, sig),
                    !.nodes = Append(st.nodes,
                                     [node |-> sig, input_count |-> Len(inputs),
                                      inputs |-> input_array(states, inputs)])]

\* A Post arm that leaves the node Visiting.
post_arm_unmarked(gnodes, st, sig) ==
    post_visited(st, sig, gnodes[sig + 1].kind, gnodes[sig + 1].inputs, st.states)

\* The Post arm: the node's index is the number of nodes compiled so far.
post_arm(gnodes, st, sig) ==
    post_visited(st, sig, gnodes[sig + 1].kind, gnodes[sig + 1].inputs,
                 [st.states EXCEPT ![sig + 1] = Len(st.nodes)])

\* The loop of Program::new: pop an item and run its arm until the stack is
\* empty or an arm returns.
RECURSIVE dfs(_, _)
dfs(gnodes, st) ==
    IF st.stack = <<>> THEN st
    ELSE IF st.stack[Len(st.stack)].action = "Pre"
    THEN dfs(gnodes, pre_arm(gnodes, [st EXCEPT !.stack = SubSeq(st.stack, 1, Len(st.stack) - 1)],
                             st.stack[Len(st.stack)].sig))
    ELSE dfs(gnodes, post_arm(gnodes, [st EXCEPT !.stack = SubSeq(st.stack, 1, Len(st.stack) - 1)],
                              st.stack[Len(st.stack)].sig))

\* The end of Program::new, from the state d the loop left: the buffer is
\* one window per node, each window holding what was last rendered into it
\* (the call, 0 for the zeros of the allocation).
program_result(d, buffer_size) ==
    IF d.state # "Ok"
    THEN [state |-> d.state, buffer_size |-> 0, nodes |-> <<>>, done |-> FALSE,
          instantiated |-> d.instantiated, buffer |-> <<>>]
    ELSE IF buffer_size = 0
    THEN [state |-> "BadBuffer", buffer_size |-> 0, nodes |-> <<>>, done |-> FALSE,
          instantiated |-> d.instantiated, buffer |-> <<>>]
    ELSE [state |-> "Ok", buffer_size |-> buffer_size, nodes |-> d.nodes, done |-> FALSE,
          instantiated |-> d.instantiated, buffer |-> [k \in 1..Len(d.nodes) |-> 0]]

\* Program::new.  An output that is no index of the graph panics at the
\* first states[sig.0].
Program_new(gnodes, output, buffer_size) ==
    IF output >= Len(gnodes)
    THEN [state |-> "Panic", buffer_size |-> 0, nodes |-> <<>>, done |-> FALSE,
          instantiated |-> <<>>, buffer |-> <<>>]
    ELSE program_result(dfs(gnodes, [state |-> "Ok",
                                     stack |-> <<StackItem(output, "Pre")>>,
                                     states |-> [k \in 1..Len(gnodes) |-> Unvisited],
                                     nodes |-> <<>>,
                                     instantiated |-> <<>>]),
                        buffer_size)

\* The slice outputs[index]: the window it names and the call that last
\* rendered into it, or the empty default slice (window -1) when
\* outputs[index] is not set yet.
output_slice(outputs, buffer, index) ==
    IF outputs[index + 1] < 0 THEN [window |-> -1, written |-> 0]
    ELSE [window |-> outputs[index + 1], written |-> buffer[outputs[index + 1] + 1]]

\* An input looked up by its position in the input list.
input_slice_positional(outputs, buffer, inputs, i) == output_slice(outputs, buffer, i - 1)

\* inputs[i] = outputs[index], for the i-th entry `index` of node.inputs.
input_slice(outputs, buffer, inputs, i) == output_slice(outputs, buffer, inputs[i])

\* The loop of Program::render from node n on.  `outputs` holds, for every
\* node, the window it rendered in this call (-1 before that); `asserted`
\* tells that a debug_assert!(index < n) has failed.
RECURSIVE render_nodes(_, _, _, _, _, _, _)
render_nodes(nodes, call, n, outputs, buffer, log, asserted) ==
    IF n = Len(nodes) THEN [buffer |-> buffer, log |-> log, asserted |-> asserted]
    ELSE render_nodes(nodes, call, n + 1,
                      [outputs EXCEPT ![n + 1] = n],
                      [buffer EXCEPT ![n + 1] = call],
                      Append(log, [node |-> n,
                                   inputs |-> [i \in 1..nodes[n + 1].input_count |->
                                       input_slice(outputs, buffer,
                                                   nodes[n + 1].inputs, i)]]),
                      asserted \/ \E i \in 1..nodes[n + 1].input_count :
                                      nodes[n + 1].inputs[i] >= n)

\* The end of Program::render: r is what the loop left, `end` is State.end
\* (<<>> for None).
render_result(prog, r, end) ==
    [program |-> [prog EXCEPT !.buffer = r.buffer, !.done = (end # <<>>)],
     result |-> "Some",
     len |-> IF end # <<>> THEN end[1] ELSE prog.buffer_size,
     log |-> r.log,
     asserted |-> r.asserted]

\* A render that does not look at done.
Program_render_again(prog, call, end) ==
    render_result(prog,
                  render_nodes(prog.nodes, call, 0, [k \in 1..Len(prog.nodes) |-> -1],
                               prog.buffer, <<>>, FALSE),
                  end)

\* Program::render in call number `call`, where the functions of the nodes
\* leave State.end as `end`.
Program_render(prog, call, end) ==
    IF prog.done
    THEN [program |-> prog, result |-> "None", len |-> 0, log |-> <<>>, asserted |-> FALSE]
    ELSE render_result(prog,
                       render_nodes(prog.nodes, call, 0,
                                    [k \in 1..Len(prog.nodes) |-> -1],
                                    prog.buffer, <<>>, FALSE),
                       end)

\* std::cmp::min
Min2(a, b) == IF a < b THEN a ELSE b

\* A State::stop that keeps the offset of the last call.
State_stop_last(end, p) == <<p>>

\* State::stop: `end` is State.end, <<>> for None.
State_stop(end, p) == IF end = <<>> THEN <<p>> ELSE <<Min2(p, end[1])>>

RECURSIVE State_end(_, _)
\* State.end after the calls stop(stops[1]), ..., from State.end = end.
State_end(end, stops) ==
    IF stops = <<>> THEN end ELSE State_end(State_stop(end, Head(stops)), Tail(stops))

\* The offsets a stop is requested at in a buffer of `size` samples: the
\* first two and the last.
StopOffsets(size) == {k \in 0..(size - 1) : k < 2 \/ k = size - 1}

\* The State::stop calls the functions of the nodes can make in one render
\* call, in the order they make them: only the sections of an envelope call
\* State::stop, each with an offset into the buffer.
StopChoices(gnodes, prog) ==
    IF \E k \in 1..Len(prog.nodes) : gnodes[prog.nodes[k].node + 1].kind = "Envelope"
    THEN UNION {[1..n -> StopOffsets(prog.buffer_size)] : n \in 0..MaxStops}
    ELSE {<<>>}

\* The buffer sizes given to Program::new.
BufferSizes == {0, 2}

\* The nodes a caller can hand to Graph::add for a graph of n nodes; the
\* inputs may name the index n, which is not a node yet.
NodeChoices(n) ==
    {GraphNode(k, <<>>) : k \in {"Noise", "Envelope"}}
    \cup {GraphNode(k, <<i>>) : k \in {"Oscillator", "Saturate"}, i \in 0..n}
    \cup {GraphNode("Multiply", <<i, j>>) : i, j \in 0..n}

InitGraph ==
    /\ lead = <<0, 0>>
    /\ input = <<>>
    /\ pc = "graph"
    /\ InitFront
    /\ operands = <<>>
    /\ InitRest

GraphAdded(node, r) ==
    /\ rets' = [op |-> "add", node |-> node, panic |-> r.panic, ref |-> r.ref]
    /\ graph' = r.nodes
    /\ pc' = IF r.panic THEN "panicked" ELSE "graph"

\* A Graph::add call.
GraphAdd ==
    /\ pc = "graph"
    /\ Len(graph) < MaxNodes
    /\ \E node \in NodeChoices(Len(graph)) : GraphAdded(node, Graph_add(graph, node))
    /\ UNCHANGED <<frontvarsButPc, operands, env, evlog, outcome, program, render, wave>>

ProgramCreated(output, p) ==
    /\ rets' = [op |-> "new", output |-> output]
    /\ program' = p
    /\ pc' = IF p.state = "Ok" THEN "render"
             ELSE IF p.state = "Panic" THEN "panicked" ELSE "failed"

\* A Program::new call on the graph built so far.
ProgramNew ==
    /\ pc = "graph"
    /\ \E output \in 0..Len(graph), size \in BufferSizes :
           ProgramCreated(output, Program_new(graph, output, size))
    /\ UNCHANGED <<frontvarsButPc, operands, env, evlog, outcome, graph, render, wave>>

\* What a build does when a debug_assert! fails: it panics where debug
\* assertions are compiled in and goes on where they are not.
AssertOutcomes(asserted) == IF asserted THEN {"panic", "continue"} ELSE {"ok"}

Rendered(stops, r, o) ==
    IF o = "panic"
    THEN /\ pc' = "panicked"
         /\ UNCHANGED <<program, render, rets>>
    ELSE /\ program' = r.program
         /\ render' = Append(render, [result |-> r.result, len |-> r.len, log |-> r.log,
                                       stops |-> IF r.result = "None" THEN <<>> ELSE stops])
         /\ rets' = [op |-> "render", result |-> r.result]
         /\ pc' = pc

RenderCall(stops, r) == \E o \in AssertOutcomes(r.asserted) : Rendered(stops, r, o)

\* A Program::render call.
Render ==
    /\ pc = "render"
    /\ Len(render) < MaxRenders
    /\ \E stops \in StopChoices(graph, program) :
           RenderCall(stops, Program_render(program, Len(render) + 1, State_end(<<>>, stops)))
    /\ UNCHANGED <<frontvarsButPc, operands, env, evlog, outcome, graph, wave>>

NextGraph == GraphAdd \/ ProgramNew \/ Render

SpecGraph == InitGraph /\ [][NextGraph]_vars

----------------------------------------------------------------------------
(* Claims about the graph and the program. *)

\* Every input of every node is the index of an earlier node.
InputsPrecede(nodes) ==
    \A i \in 1..Len(nodes) : \A k \in 1..Len(nodes[i].inputs) : nodes[i].inputs[k] < i - 1

\* What a Graph::add call with the node recorded in r did to the graph.
AddEffect(r) ==
    IF \E k \in 1..Len(r.node.inputs) : r.node.inputs[k] >= Len(graph)
    THEN pc' = "panicked" /\ graph' = graph
    ELSE /\ pc' # "panicked"
         /\ graph' = Append(graph, r.node)
         /\ r.ref = Len(graph)

C18_State == InputsPrecede(graph)

C18_Step == (pc = "graph" /\ program' = program /\ rets' # rets) => AddEffect(rets')

\* C18: Graph::add returns the number of nodes present before the call and
\* appends exactly one node; every node's inputs are less than its own
\* index; an add of a node with an input >= the node count panics and
\* leaves the graph unchanged.
C18_GraphAdd == []C18_State /\ [][C18_Step]_vars

\* A node with two inputs was added as the third node.
C18_Witness ==
    /\ pc = "graph"
    /\ Len(graph) = 3
    /\ rets = [op |-> "add", node |-> GraphNode("Multiply", <<0, 1>>), panic |-> FALSE,
               ref |-> 2]

\* The nodes reachable from the set S of nodes along inputs.
RECURSIVE ReachableFrom(_, _)
ReachableFrom(gnodes, S) ==
    LET T == S \cup UNION {{gnodes[n + 1].inputs[k] : k \in 1..Len(gnodes[n + 1].inputs)} :
                           n \in S}
    IN  IF T = S THEN S ELSE ReachableFrom(gnodes, T)

\* The program p compiled from gnodes for `output` holds the reachable
\* nodes, each once, dependencies first and the output last.
Compiled(gnodes, output, p) ==
    /\ {p.nodes[k].node : k \in 1..Len(p.nodes)} = ReachableFrom(gnodes, {output})
    /\ \A k, l \in 1..Len(p.nodes) : p.nodes[k].node = p.nodes[l].node => k = l
    /\ \A k \in 1..Len(p.nodes) :
           /\ p.nodes[k].input_count = Len(gnodes[p.nodes[k].node + 1].inputs)
           /\ Len(p.nodes[k].inputs) = p.nodes[k].input_count
           /\ \A i \in 1..p.nodes[k].input_count :
                  /\ p.nodes[k].inputs[i] >= 0
                  /\ p.nodes[k].inputs[i] < k - 1
                  /\ p.nodes[p.nodes[k].inputs[i] + 1].node
                        = gnodes[p.nodes[k].node + 1].inputs[i]
    /\ p.nodes[Len(p.nodes)].node = output
    /\ p.instantiated = [k \in 1..Len(p.nodes) |-> p.nodes[k].node]

\* Whatever Program::new returns, it instantiates reachable nodes only.
InstantiatesReachable(gnodes, output, p) ==
    \A k \in 1..Len(p.instantiated) : p.instantiated[k] \in ReachableFrom(gnodes, {output})

C19_Step ==
    (pc = "graph" /\ program' # program /\ program'.state # "Panic") =>
        /\ InstantiatesReachable(graph, rets'.output, program')
        /\ program'.state = "Ok" => Compiled(graph, rets'.output, program')

\* C19: Program::new compiles exactly the nodes reachable from the output,
\* each once; every compiled input is the compiled index of the dependency
\* and less than the node's own compiled index; the output is compiled
\* last; unreachable nodes are neither compiled nor instantiated.
C19_ProgramNew == [][C19_Step]_vars

\* A program was compiled from a graph of four nodes in which one node is
\* unreachable, one is reachable along two paths and one is listed twice as
\* an input.
C19_Witness ==
    /\ program.state = "Ok"
    /\ Len(graph) = 4
    /\ Len(program.nodes) = 3
    /\ \E k \in 1..3 : graph[program.nodes[k].node + 1].inputs = <<0, 0>>
    /\ \E k \in 1..3 : graph[program.nodes[k].node + 1].inputs \in {<<0, 1>>, <<1, 0>>}

C37_Step ==
    (pc = "graph" /\ program' # program) =>
        /\ program'.state # "ContainsLoop"
        /\ program'.state = "Panic" => rets'.output >= Len(graph)

\* C37: for a graph built through Graph::add, Program::new never returns
\* ContainsLoop, also when a node has several consumers or is listed twice
\* as an input, and it panics only for an output that is no node of the
\* graph, never with `node not visited`.
C37_NoLoopReported == []InputsPrecede(graph) /\ [][C37_Step]_vars

\* A program was compiled from three nodes, the first one an input of both
\* the second and the third, the third listing the second as well.
C37_Witness ==
    /\ pc = "render"
    /\ program.state = "Ok"
    /\ Len(program.nodes) = 3
    /\ graph = <<GraphNode("Noise", <<>>), GraphNode("Oscillator", <<0>>),
                 GraphNode("Multiply", <<1, 0>>)>>

\* The render call `r`, the c-th on program p, rendered every node once, in
\* order, each input being the window of an earlier node rendered in call c.
RenderedInOrder(p, r, c) ==
    /\ Len(r.log) = Len(p.nodes)
    /\ \A n \in 1..Len(r.log) :
           /\ r.log[n].node = n - 1
           /\ Len(r.log[n].inputs) = p.nodes[n].input_count
           /\ \A i \in 1..Len(r.log[n].inputs) :
                  /\ r.log[n].inputs[i].window = p.nodes[n].inputs[i]
                  /\ r.log[n].inputs[i].window >= 0
                  /\ r.log[n].inputs[i].window < n - 1
                  /\ r.log[n].inputs[i].written = c

\* C20: in every Program::render call that the done flag does not cut
\* short, every compiled node is rendered exactly once, in compiled order,
\* and every input slice it receives is the window of a node rendered
\* earlier in the same call, never a window of an earlier call or its own.
C20_RenderOrder ==
    \A c \in 1..Len(render) :
        IF render[c].result = "None" THEN render[c].log = <<>>
        ELSE RenderedInOrder(program, render[c], c)

\* A second buffer was rendered by a program with a two-input node.
C20_Witness ==
    /\ Len(render) >= 2
    /\ render[2].result = "Some"
    /\ \E n \in 1..Len(program.nodes) :
           /\ program.nodes[n].input_count = 2
           /\ program.nodes[n].inputs[1] # program.nodes[n].inputs[2]

\* Render call i returned a full buffer, a short buffer, or None.
IsFull(i) ==
    render[i].result = "Some" /\ render[i].stops = <<>> /\ render[i].len = program.buffer_size

IsShort(i) ==
    /\ render[i].result = "Some"
    /\ render[i].stops # <<>>
    /\ render[i].len < program.buffer_size
    /\ \E k \in 1..Len(render[i].stops) : render[i].len = render[i].stops[k]

IsNone(i) == render[i].result = "None" /\ render[i].len = 0 /\ render[i].log = <<>>

C21_State ==
    pc = "render" =>
        /\ \A i \in 1..Len(render) : IsFull(i) \/ IsShort(i) \/ IsNone(i)
        /\ \A i, j \in 1..Len(render) : (i < j /\ ~IsFull(i)) => IsNone(j)
        /\ \A i, j \in 1..Len(render) : (i < j /\ IsFull(j)) => IsFull(i)
        /\ program.done <=> \E i \in 1..Len(render) : ~IsFull(i)

\* Once done is set it stays set and no node renders into its window.
C21_Step == (pc = "render" /\ program.done) => (program'.done /\ program'.buffer = program.buffer)

\* C21: a sequence of Program::render calls returns full buffers, then at
\* most one short buffer cut at the stop offset, then None for ever; after
\* done is set no node is rendered and done is not cleared.
C21_RenderSequence == []C21_State /\ [][C21_Step]_vars

\* A full buffer, a buffer cut at offset 1, then None.
C21_Witness ==
    /\ pc = "render"
    /\ Len(render) = 3
    /\ IsFull(1)
    /\ IsShort(2) /\ render[2].len = 1
    /\ IsNone(3)
    /\ Len(program.nodes) >= 2

\* The least of the offsets of a sequence of stop calls.
LeastStop(stops) ==
    CHOOSE m \in {stops[k] : k \in 1..Len(stops)} : \A k \in 1..Len(stops) : m <= stops[k]

\* C22: State.end starts as None and after stop(p1), ..., stop(pn) is
\* Some(min(p1..pn)); the buffer the render call returns is cut at that
\* offset, whatever the order of the calls.
C22_StopIsMinimum ==
    \A i \in 1..Len(render) :
        render[i].result = "Some" =>
            /\ State_end(<<>>, <<>>) = <<>>
            /\ render[i].stops = <<>> => render[i].len = program.buffer_size
            /\ render[i].stops # <<>> =>
                   /\ State_end(<<>>, render[i].stops) = <<LeastStop(render[i].stops)>>
                   /\ render[i].len = LeastStop(render[i].stops)

\* Two stops in one call, the later one at the smaller offset, and two in
\* another order in the same program's other runs.
C22_Witness ==
    /\ pc = "render"
    /\ Len(render) >= 2
    /\ render[2].result = "Some"
    /\ render[2].stops = <<1, 0>>
    /\ render[2].len = 0

----------------------------------------------------------------------------
(* evaluate.rs, evaluate/environment.rs, evaluate/builtins.rs: the
   evaluator.  The state `e` threaded through an evaluation is the Env
   (has_error, variables, graph) and the diagnostics handed to the
   ErrorHandler; variables is the list of the (name, value) entries of the
   map.  A Result is a record [ok, v, err]. *)

\* Value(Data, Units).  `num` is <<>> but for a Data::Int, where it holds
\* the integer.
Value(data, sig, units) == [data |-> data, sig |-> sig, units |-> units, num |-> <<>>]

\* Value(Data::Int(num), units) and Value(Data::Float(_), units)
Value_int(num, units) == [data |-> "Int", sig |-> 0, units |-> units, num |-> <<num>>]

Value_float(units) == Value("Float", 0, units)

\* Value::void
Value_void == Value("Void", 0, Units_scalar)

Units_volt == Units_of(1, 0, 0, 0)

Units_hertz == Units_of(0, -1, 0, 0)

Units_radian == Units_of(0, 0, 1, 0)

\* Type(DataType, Option<Units>)
Type(dt, units) == [dt |-> dt, units |-> units]

\* ValueError and OpError values; Failed is the one that says a diagnostic
\* was reported elsewhere.
NoError == [kind |-> "None", got |-> <<>>, expect |-> <<>>]

Failed == [kind |-> "Failed", got |-> <<>>, expect |-> <<>>]

BadType(got, expect) == [kind |-> "BadType", got |-> got, expect |-> expect]

BadEType(got, expect) == [kind |-> "BadEType", got |-> got, expect |-> expect]

BadNArgs(got, min, max) == [kind |-> "BadNArgs", got |-> got, expect |-> <<min, max>>]

Ok(v) == [ok |-> TRUE, v |-> v, err |-> NoError]

Err(err) == [ok |-> FALSE, v |-> Value_void, err |-> err]

\* Value::get_type and Value::bad_type
get_type(v) == Type(v.data, <<v.units>>)

bad_type(v, expect) == BadType(get_type(v), expect)

\* Value::into_void, into_nonvoid, into_any_signal, into_signal
Value_into_void(v) ==
    IF v.data = "Void" THEN Ok(v) ELSE Err(bad_type(v, Type("Void", <<>>)))

Value_into_nonvoid(v) ==
    IF v.data = "Void" THEN Err(bad_type(v, Type("NonVoid", <<>>))) ELSE Ok(v)

Value_into_any_signal(v) ==
    IF v.data = "Signal" THEN Ok(v) ELSE Err(bad_type(v, Type("Signal", <<>>)))

\* Value::into_int
Value_into_int(v) ==
    IF v.data = "Int" /\ v.units = Units_scalar THEN Ok(v)
    ELSE Err(bad_type(v, Type("Int", <<Units_scalar>>)))

\* An into_signal that takes a signal of any units.
Value_into_signal_any_units(v, units) ==
    IF v.data = "Signal" THEN Ok(v) ELSE Err(bad_type(v, Type("Signal", <<units>>)))

Value_into_signal(v, units) ==
    IF v.data = "Signal" /\ v.units = units THEN Ok(v)
    ELSE Err(bad_type(v, Type("Signal", <<units>>)))

\* EvalResult(label, value) and ValueLabel
ValueLabel(span, name, index) == [pos |-> span, name |-> name, index |-> index]

EvalResult(label, r) == [label |-> label, r |-> r]

\* EvalResult::and_then with one of the conversions above
into_void(x) == IF x.r.ok THEN EvalResult(x.label, Value_into_void(x.r.v)) ELSE x

into_nonvoid(x) == IF x.r.ok THEN EvalResult(x.label, Value_into_nonvoid(x.r.v)) ELSE x

into_any_signal(x) == IF x.r.ok THEN EvalResult(x.label, Value_into_any_signal(x.r.v)) ELSE x

into_signal(x, units) ==
    IF x.r.ok THEN EvalResult(x.label, Value_into_signal(x.r.v, units)) ELSE x

into_int(x) == IF x.r.ok THEN EvalResult(x.label, Value_into_int(x.r.v)) ELSE x

\* An Env::error that hands the diagnostic on and leaves has_error alone.
Env_error_unflagged(e, span, msg, details) ==
    [e EXCEPT !.errs = Append(e.errs, Diag(span, msg, details))]

\* Env::error.  Nothing runs after a panic: a state with `panicked` set is
\* left as it is.
Env_error(e, span, msg, details) ==
    IF e.panicked THEN e
    ELSE [e EXCEPT !.has_error = TRUE, !.errs = Append(e.errs, Diag(span, msg, details))]

\* Env::new_node: Graph::add on the graph of the Env, and its panic.
Env_new_node(e, node) ==
    [e |-> IF e.panicked THEN e
           ELSE [e EXCEPT !.graph = Graph_add(e.graph, node).nodes,
                          !.panicked = Graph_add(e.graph, node).panic],
     ref |-> Graph_add(e.graph, node).ref,
     panic |-> Graph_add(e.graph, node).panic]

\* Env::into_graph: <<>> for None, <<graph>> for Some.
Env_into_graph(e) == IF e.has_error THEN <<>> ELSE <<e.graph>>

\* What evaluating in state e gave: the state left and the Result.
Evaluated(e, r) == [e |-> e, r |-> r]

\* error!(env, pos, ...): the diagnostic and Err(Failed).
error(e, span, msg, details) == Evaluated(Env_error(e, span, msg, details), Err(Failed))

\* EvalResult::unwrap
unwrap(e, x) ==
    IF x.r.ok \/ x.r.err.kind = "Failed" THEN Evaluated(e, IF x.r.ok THEN x.r ELSE Err(Failed))
    ELSE Evaluated(Env_error(e, x.label.pos, "invalid value", <<x.label.name, x.r.err>>),
                   Err(Failed))

\* HashMap::get, contains_key and insert on the variables.
variables_get(vs, name) ==
    IF \E k \in 1..Len(vs) : vs[k].name = name
    THEN <<vs[CHOOSE k \in 1..Len(vs) : vs[k].name = name].value>>
    ELSE <<>>

variables_insert(vs, name, r) ==
    IF \E k \in 1..Len(vs) : vs[k].name = name
    THEN [k \in 1..Len(vs) |-> IF vs[k].name = name THEN [name |-> name, value |-> r]
                               ELSE vs[k]]
    ELSE Append(vs, [name |-> name, value |-> r])

\* "define", "noise", "oscillator", "*"
Name_define == <<100, 101, 102, 105, 110, 101>>

Name_noise == <<110, 111, 105, 115, 101>>

Name_oscillator == <<111, 115, 99, 105, 108, 108, 97, 116, 111, 114>>

Name_multiply == <<42>>

\* "note"
Name_note == <<110, 111, 116, 101>>

\* The entries of builtins::operators() the programs use: <<>> for a name
\* that is not in the map.
operators(name) ==
    IF name = Name_define THEN <<[kind |-> "Macro", f |-> "define"]>>
    ELSE IF name = Name_noise THEN <<[kind |-> "Function", f |-> "noise"]>>
    ELSE IF name = Name_oscillator THEN <<[kind |-> "Function", f |-> "oscillator"]>>
    ELSE IF name = Name_multiply THEN <<[kind |-> "Function", f |-> "multiply"]>>
    ELSE IF name = Name_note THEN <<[kind |-> "Function", f |-> "note"]>>
    ELSE <<>>

\* func_argn
func_argn(name, index, x) == EvalResult(ValueLabel(x.label.pos, name, index), x.r)

\* new_node of builtins.rs
new_node(e, units, node) ==
    Evaluated(Env_new_node(e, node).e, Ok(Value("Signal", Env_new_node(e, node).ref, units)))

\* builtins::noise
noise(e, span, xs) ==
    IF xs # <<>> THEN Evaluated(e, Err(BadNArgs(Len(xs), 0, <<0>>)))
    ELSE new_node(e, Units_volt, GraphNode("Noise", <<>>))

\* i32::try_from(i).is_ok() for an integer [neg, mag, over]: `over` is 0
\* when the magnitude is mag, 1 when it is 2^31 and 2 when it is more.
fits_i32(i) == i.over = 0 \/ (i.over = 1 /\ i.neg)

\* note after its argument was unwrapped to u.
note_node(u) ==
    IF ~u.r.ok THEN Evaluated(u.e, Err(Failed))
    ELSE new_node(u.e, Units_hertz, GraphNode("Note", <<>>))

\* note from offset.into_int() on: the unimplemented!() of the closure
\* panics for an integer that i32::try_from refuses.
note_offset(e, x) ==
    IF x.r.ok /\ ~fits_i32(x.r.v.num[1])
    THEN Evaluated([e EXCEPT !.panicked = TRUE], Err(Failed))
    ELSE note_node(unwrap(e, x))

\* builtins::note
note(e, span, xs) ==
    IF Len(xs) # 1 THEN Evaluated(e, Err(BadNArgs(Len(xs), 1, <<1>>)))
    ELSE note_offset(e, into_int(func_argn("offset", 0, xs[1])))

\* oscillator after its argument was unwrapped to u.
oscillator_node(u) ==
    IF ~u.r.ok THEN Evaluated(u.e, Err(Failed))
    ELSE new_node(u.e, Units_radian, GraphNode("Oscillator", <<u.r.v.sig>>))

\* builtins::oscillator
oscillator(e, span, xs) ==
    IF Len(xs) # 1 THEN Evaluated(e, Err(BadNArgs(Len(xs), 1, <<1>>)))
    ELSE oscillator_node(unwrap(e, into_signal(func_argn("frequency", 0, xs[1]), Units_hertz)))

\* One turn of the loop of builtins::multiply, from the product so far and
\* the unwrapped argument u (u.e is the state, u.r the argument).
multiply_units(e, span, x, y, m) ==
    IF ~m.ok
    THEN error(e, span, "could not multiply", <<x.units, y.units>>)
    ELSE new_node(e, m.units, GraphNode("Multiply", <<x.sig, y.sig>>))

multiply_step(span, product, u) ==
    IF product.ok /\ u.r.ok
    THEN multiply_units(u.e, span, product.v, u.r.v,
                        Units_multiply(product.v.units, u.r.v.units))
    ELSE Evaluated(u.e, Err(Failed))

RECURSIVE multiply_rest(_, _, _, _)
\* The loop of builtins::multiply from argument n (1-based) on; p is the
\* state and the product so far.
multiply_rest(span, xs, n, p) ==
    IF n > Len(xs) THEN p
    ELSE multiply_rest(span, xs, n + 1,
             multiply_step(span, p.r,
                 unwrap(p.e, into_any_signal(func_argn("arg", n, xs[n])))))

\* builtins::multiply
multiply(e, span, xs) ==
    IF xs = <<>> THEN Evaluated(e, Err(BadNArgs(0, 1, <<>>)))
    ELSE multiply_rest(span, xs, 2,
             unwrap(e, into_any_signal(func_argn("arg", 1, xs[1]))))

\* macro_arg(...).and_then(get_symbol)
get_symbol(name, expr) ==
    EvalResult(ValueLabel(expr.pos, name, 0),
               IF expr.kind = "Symbol" THEN [ok |-> TRUE, v |-> expr.text, err |-> NoError]
               ELSE [ok |-> FALSE, v |-> <<>>, err |-> BadEType(expr.kind, "Symbol")])

\* define when the name is already bound: the binding is replaced all the
\* same.
define_name_rebinding(e, name) == Evaluated(e, name.r)

\* The name of a define: the diagnostic for a name that is already bound,
\* then the unwrap.
define_name(e, name) ==
    IF name.r.ok /\ variables_get(e.variables, name.r.v) # <<>>
    THEN Evaluated(Env_error(e, name.label.pos, "a variable named is already defined",
                             <<name.r.v>>),
                   [ok |-> FALSE, v |-> <<>>, err |-> Failed])
    ELSE IF name.r.ok \/ name.r.err.kind = "Failed" THEN Evaluated(e, name.r)
    ELSE Evaluated(Env_error(e, name.label.pos, "invalid value", <<name.label.name, name.r.err>>),
                   [ok |-> FALSE, v |-> <<>>, err |-> Failed])

\* The end of define, from the name and the unwrapped value u.
define_end(name, u) ==
    IF ~name.ok THEN Evaluated(u.e, Err(Failed))
    ELSE Evaluated(IF u.e.panicked THEN u.e
                   ELSE [u.e EXCEPT !.variables = variables_insert(@, name.v, u.r)],
                   IF u.r.ok THEN Ok(Value_void) ELSE Err(Failed))

\* The end of a call that turns every error into Failed and reports none.
call_end_silent(p, oppos, name) ==
    IF p.r.ok \/ p.r.err.kind = "Failed" THEN p
    ELSE Evaluated(p.e, Err(Failed))

\* The call of a function or the end of a call, from the OpResult p.
call_end(p, oppos, name) ==
    IF p.r.ok \/ p.r.err.kind = "Failed" THEN p
    ELSE error(p.e, oppos, "invalid call to", <<name, p.r.err>>)

call_function(f, e, span, xs) ==
    IF f = "noise" THEN noise(e, span, xs)
    ELSE IF f = "oscillator" THEN oscillator(e, span, xs)
    ELSE IF f = "note" THEN note(e, span, xs)
    ELSE multiply(e, span, xs)

\* The empty list: evaluated as a call of nothing, with no diagnostic.
empty_list_silent(e, span) == Evaluated(e, Err(Failed))

\* The arm of evaluate_impl for a list with no items.
empty_list(e, span) == error(e, span, "cannot evaluate empty list", <<>>)

RECURSIVE evaluate_impl(_, _)
RECURSIVE evaluate_args(_, _, _)
RECURSIVE define(_, _, _)

\* Env::evaluate: the result of evaluate_impl under the label of the form.
Env_evaluate(e, expr) ==
    [e |-> evaluate_impl(e, expr).e,
     x |-> EvalResult(ValueLabel(expr.pos, "", 0), evaluate_impl(e, expr).r)]

\* The loop of evaluate_impl over the arguments of a function: p.e is the
\* state, p.xs the values so far.
evaluate_args(p, items, n) ==
    IF n > Len(items) THEN p
    ELSE evaluate_args([e |-> Env_evaluate(p.e, items[n]).e,
                        xs |-> Append(p.xs, Env_evaluate(p.e, items[n]).x)],
                       items, n + 1)

\* define after its name was settled in n (n.e the state, n.r the name).
define_value(n, value) ==
    define_end(n.r,
               unwrap(evaluate_impl(n.e, value).e,
                      into_nonvoid(EvalResult(ValueLabel(value.pos, "value", 0),
                                              evaluate_impl(n.e, value).r))))

\* builtins::define
define(e, span, items) ==
    IF Len(items) # 2 THEN Evaluated(e, Err(BadNArgs(Len(items), 2, <<2>>)))
    ELSE define_value(define_name(e, get_symbol("name", items[1])), items[2])

\* A call that hands the function its first argument alone when that one
\* failed, the later arguments left unevaluated.
call_until_failure(e, expr, op, name, oppos) ==
    IF op.kind = "Function" /\ Len(expr.items) >= 2 /\ ~evaluate_impl(e, expr.items[2]).r.ok
    THEN call_end(call_function(op.f, evaluate_impl(e, expr.items[2]).e, expr.pos,
                                <<Env_evaluate(e, expr.items[2]).x>>),
                  oppos, name)
    ELSE IF op.kind = "Function"
    THEN call_end(call_function(op.f, evaluate_args([e |-> e, xs |-> <<>>], Tail(expr.items), 1).e,
                                expr.pos,
                                evaluate_args([e |-> e, xs |-> <<>>], Tail(expr.items), 1).xs),
                  oppos, name)
    ELSE call_end(define(e, expr.pos, Tail(expr.items)), oppos, name)

\* The call of the operator op (one entry of the operators map).
call(e, expr, op, name, oppos) ==
    IF op.kind = "Function"
    THEN call_end(call_function(op.f, evaluate_args([e |-> e, xs |-> <<>>], Tail(expr.items), 1).e,
                                expr.pos,
                                evaluate_args([e |-> e, xs |-> <<>>], Tail(expr.items), 1).xs),
                  oppos, name)
    ELSE call_end(define(e, expr.pos, Tail(expr.items)), oppos, name)

\* The integer a run of digits (most significant first) in `radix` stands
\* for, from the integer acc of the digits before d.
integer_digit(acc, radix, d) ==
    IF acc.over > 0 THEN [acc EXCEPT !.over = 2]
    ELSE IF acc.mag <= (I32Max - d) \div radix
    THEN [acc EXCEPT !.mag = acc.mag * radix + d]
    ELSE IF (IF d >= 1 THEN acc.mag <= (I32Max - (d - 1)) \div radix
                            /\ acc.mag * radix + (d - 1) = I32Max
             ELSE (acc.mag - 1) * radix + (radix - 1) = I32Max)
    THEN [acc EXCEPT !.over = 1]
    ELSE [acc EXCEPT !.over = 2]

RECURSIVE integer_from(_, _, _, _)
integer_from(acc, radix, text, k) ==
    IF k > Len(text) THEN acc
    ELSE integer_from(integer_digit(acc, radix,
                                    IF text[k] >= 97 THEN text[k] - 97 + 10 ELSE text[k] - 48),
                      radix, text, k + 1)

\* The text of a number without its sign, and the radix of its prefix.
unsigned_text(text) == IF text # <<>> /\ text[1] = 45 THEN Tail(text) ELSE text

text_radix(t) ==
    IF Len(t) >= 2 /\ t[1] = 48 /\ t[2] = 98 THEN 2
    ELSE IF Len(t) >= 2 /\ t[1] = 48 /\ t[2] = 111 THEN 8
    ELSE IF Len(t) >= 2 /\ t[1] = 48 /\ t[2] = 120 THEN 16
    ELSE 10

\* A printed number has an exponent exactly when a sign follows its first
\* byte (to_string writes it as e+N or e-N).
has_exponent(text) == \E k \in 2..Len(text) : text[k] \in {43, 45}

\* The Content::Integer or Content::Float of a Content::Number or
\* Content::Units: a number with no exponent is an Integer, any other a
\* Float.  The integers of the programs fit an i64.
number_value(expr) ==
    IF has_exponent(expr.text) THEN Value_float(expr.units)
    ELSE Value_int(integer_from([neg |-> expr.text[1] = 45, mag |-> 0, over |-> 0],
                                text_radix(unsigned_text(expr.text)),
                                IF text_radix(unsigned_text(expr.text)) = 10
                                THEN unsigned_text(expr.text)
                                ELSE Tail(Tail(unsigned_text(expr.text))), 1),
                   expr.units)

\* Env::evaluate_impl
evaluate_impl(e, expr) ==
    IF expr.kind = "Symbol"
    THEN IF variables_get(e.variables, expr.text) # <<>>
         THEN Evaluated(e, variables_get(e.variables, expr.text)[1])
         ELSE error(e, expr.pos, "undefined symbol", <<expr.text>>)
    ELSE IF expr.kind \in {"Number", "Units"} THEN Evaluated(e, Ok(number_value(expr)))
    ELSE IF expr.items = <<>> THEN empty_list(e, expr.pos)
    ELSE IF expr.items[1].kind # "Symbol"
    THEN error(e, expr.pos, "function or macro name must be a symbol", <<>>)
    ELSE IF operators(expr.items[1].text) = <<>>
    THEN error(e, expr.items[1].pos, "undefined function or macro", <<expr.items[1].text>>)
    ELSE call(e, expr, operators(expr.items[1].text)[1], expr.items[1].text, expr.items[1].pos)

\* One turn of the loop of evaluate_program over the leading forms, from
\* p = env.evaluate(form) and x = p.into_void(): the state left, the value
\* of the form, and x.
leading_checked(p, x) ==
    [e |-> IF ~x.r.ok /\ x.r.err.kind # "Failed"
           THEN Env_error(p.e, x.label.pos, "invalid top-level statement", <<x.r.err>>)
           ELSE p.e,
     after |-> p.e, raw |-> p.x.r, r |-> x.r, ret |-> <<>>]

leading_form(e, form) == leading_checked(Env_evaluate(e, form), into_void(Env_evaluate(e, form).x))

\* The last form of evaluate_program and its return, from p =
\* env.evaluate(last) and x = p.into_signal(Units::volt(1)): ret is <<>>
\* for None and <<[graph, root]>> for Some.
body_checked(p, x) ==
    IF ~x.r.ok
    THEN [e |-> IF x.r.err.kind # "Failed"
                THEN Env_error(p.e, x.label.pos, "invalid program body", <<x.r.err>>)
                ELSE p.e,
          after |-> p.e, raw |-> p.x.r, r |-> x.r, ret |-> <<>>]
    ELSE [e |-> p.e, after |-> p.e, raw |-> p.x.r, r |-> x.r,
          ret |-> IF Env_into_graph(p.e) = <<>> THEN <<>>
                  ELSE <<[graph |-> Env_into_graph(p.e)[1], root |-> x.r.v.sig]>>]

body_form(e, form) ==
    body_checked(Env_evaluate(e, form), into_signal(Env_evaluate(e, form).x, Units_volt))

\* The Env with the ErrorHandler it borrows.
EnvState == [has_error |-> env.has_error, variables |-> env.variables, graph |-> env.graph,
             panicked |-> env.panicked, errs |-> errs]

EnvLeft(e) ==
    /\ env' = [has_error |-> e.has_error, variables |-> e.variables, graph |-> e.graph,
               panicked |-> e.panicked]
    /\ errs' = e.errs

DEFAULT_SAMPLE_RATE == 48000

MIN_SAMPLE_RATE == 8000

MAX_SAMPLE_RATE == 192000

DEFAULT_BUFFER_SIZE == 1024

MIN_BUFFER_SIZE == 32

MAX_BUFFER_SIZE == 8192

\* The calls of Program::render the loop of write_wave is followed for.
MaxWaveCalls == 48

\* '(' ')' ' ' and the symbols x and y
LParen == <<40>>

RParen == <<41>>

Space == <<32>>

Sym_x == <<120>>

Sym_y == <<121>>

List1(a) == LParen \o a \o RParen

List2(a, b) == LParen \o a \o Space \o b \o RParen

List3(a, b, c) == LParen \o a \o Space \o b \o Space \o c \o RParen

\* The forms the programs are made of.
Forms ==
    {List1(Name_noise),                                  \* (noise)
     Sym_x,                                              \* x
     List3(Name_define, Sym_x, List1(Name_noise)),       \* (define x (noise))
     List3(Name_define, Sym_y, Sym_x),                   \* (define y x)
     List3(Name_define, Sym_x, List1(<<>>)),             \* (define x ())
     List3(Name_define, List1(Name_noise), Sym_x),       \* (define (noise) x)
     List2(Name_define, Sym_x),                          \* (define x)
     List1(<<>>),                                        \* ()
     List1(Sym_x),                                       \* (x)
     List1(List1(Name_noise)),                           \* ((noise))
     List3(Name_multiply, Sym_x, Sym_x),                 \* (* x x)
     List2(Name_oscillator, Sym_x),                      \* (oscillator x)
     LParen \o Name_noise}                               \* (noise

MaxForms == 3

RECURSIVE ProgramTextsUpTo(_)
ProgramTextsUpTo(n) ==
    IF n = 0 THEN {<<>>}
    ELSE ProgramTextsUpTo(n - 1)
         \cup Forms
         \cup {t \o Space \o f : t \in ProgramTextsUpTo(n - 1) \ {<<>>}, f \in Forms}

\* A run of run_file on a program text, with or without an output_wave path.
InitRun ==
    /\ lead = <<0, 0>>
    /\ input \in ProgramTextsUpTo(MaxForms)
    /\ pc = "start"
    /\ InitFront
    /\ operands \in {[output_wave |-> b, sample_rate |-> <<>>, buffer_size |-> <<>>] :
                         b \in BOOLEAN}
    /\ InitRest

\* The start of evaluate_program: the split of the program into its
\* leading forms and its last form, and Env::new.
EvalBegin ==
    /\ pc = "done"
    /\ rets' = [errs0 |-> Len(errs)]
    /\ IF values = <<>>
       THEN /\ errs' = Append(errs, Diag(NoSpan, "empty program", <<>>))
            /\ outcome' = "None"
            /\ pc' = "failed"
       ELSE /\ errs' = errs
            /\ outcome' = outcome
            /\ pc' = "evaluate"
    /\ env' = NoEnv
    /\ UNCHANGED <<lead, input, tlead, toff, pos, toks, exprs, groups, number, result, values,
                   overflowed, snap, operands, evlog, graph, program, render, wave>>

FormEvaluated(k, before, p) ==
    /\ EnvLeft(p.e)
    /\ evlog' = Append(evlog, [form |-> k, before |-> before, after |-> p.after,
                                raw |-> p.raw, r |-> p.r])
    /\ pc' = IF p.e.panicked THEN "panicked" ELSE pc

\* One leading form of evaluate_program.
EvalForm ==
    /\ pc = "evaluate"
    /\ Len(evlog) + 1 < Len(values)
    /\ FormEvaluated(Len(evlog) + 1, EnvState, leading_form(EnvState, values[Len(evlog) + 1]))
    /\ UNCHANGED <<lead, input, tlead, toff, pos, toks, exprs, groups, number, result,
                   values, overflowed, snap, operands, rets, outcome, graph, program, render,
                   wave>>

BodyEvaluated(k, before, p) ==
    /\ EnvLeft(p.e)
    /\ evlog' = Append(evlog, [form |-> k, before |-> before, after |-> p.after,
                                raw |-> p.raw, r |-> p.r])
    /\ outcome' = IF p.e.panicked THEN outcome ELSE IF p.ret = <<>> THEN "None" ELSE "Some"
    /\ graph' = IF p.ret = <<>> THEN graph ELSE p.ret[1].graph
    /\ rets' = IF p.ret = <<>> THEN rets ELSE [errs0 |-> rets.errs0, root |-> p.ret[1].root]
    /\ pc' = IF p.e.panicked THEN "panicked" ELSE IF p.ret = <<>> THEN "failed" ELSE "evaluated"

\* The last form of evaluate_program, its return, and the `?` of run_file.
EvalLast ==
    /\ pc = "evaluate"
    /\ Len(evlog) + 1 = Len(values)
    /\ BodyEvaluated(Len(values), EnvState, body_form(EnvState, values[Len(values)]))
    /\ UNCHANGED <<lead, input, tlead, toff, pos, toks, exprs, groups, number, result,
                   values, overflowed, snap, operands, program, render, wave>>

\* The sample rate write_wave uses for the -rate option `opt` (<<>> when
\* absent): ok is FALSE where write_wave returns Err(Failed).
wave_sample_rate(opt) ==
    IF opt = <<>> THEN [ok |-> TRUE, rate |-> DEFAULT_SAMPLE_RATE]
    ELSE [ok |-> opt[1] >= MIN_SAMPLE_RATE /\ opt[1] <= MAX_SAMPLE_RATE, rate |-> opt[1]]

RECURSIVE power_of_two_from(_, _)
power_of_two_from(p, n) == IF p >= n THEN p ELSE power_of_two_from(2 * p, n)

\* usize::next_power_of_two
next_power_of_two(n) == power_of_two_from(1, n)

\* A buffer size taken as requested when it is within the limits.
wave_buffer_size_unrounded(opt) ==
    IF opt = <<>> THEN [size |-> DEFAULT_BUFFER_SIZE, warnings |-> 0, errors |-> 0]
    ELSE IF opt[1] < MIN_BUFFER_SIZE
    THEN [size |-> MIN_BUFFER_SIZE, warnings |-> 1, errors |-> 0]
    ELSE IF opt[1] > MAX_BUFFER_SIZE
    THEN [size |-> MAX_BUFFER_SIZE, warnings |-> 1, errors |-> 0]
    ELSE [size |-> opt[1], warnings |-> 0, errors |-> 0]

\* The buffer size write_wave uses for the -buffer-size option `opt` (<<>>
\* when absent), with the number of warning! and error! calls it makes.
wave_buffer_size(opt) ==
    IF opt = <<>> THEN [size |-> DEFAULT_BUFFER_SIZE, warnings |-> 0, errors |-> 0]
    ELSE IF opt[1] < MIN_BUFFER_SIZE
    THEN [size |-> MIN_BUFFER_SIZE, warnings |-> 1, errors |-> 0]
    ELSE IF opt[1] > MAX_BUFFER_SIZE
    THEN [size |-> MAX_BUFFER_SIZE, warnings |-> 1, errors |-> 0]
    ELSE [size |-> next_power_of_two(opt[1]),
          warnings |-> IF next_power_of_two(opt[1]) # opt[1] THEN 1 ELSE 0,
          errors |-> 0]

\* write_wave from Program::new to the start of its loop, for the sample
\* rate r, the buffer size b and the result p of Program::new.
WaveOpened(r, b, p) ==
    /\ program' = p
    /\ wave' = IF p.state = "Ok"
               THEN [created |-> TRUE, sample_rate |-> r.rate, buffer_size |-> b.size,
                     warnings |-> b.warnings, errors |-> 0, calls |-> 0, pos |-> 0,
                     gate |-> <<>>, released |-> <<>>, finished |-> FALSE]
               ELSE [created |-> FALSE, sample_rate |-> r.rate, buffer_size |-> b.size,
                     warnings |-> b.warnings, errors |-> 1, calls |-> 0, pos |-> 0,
                     gate |-> <<>>, released |-> <<>>, finished |-> FALSE]
    /\ pc' = IF p.state = "Ok" THEN "wave"
             ELSE IF p.state = "Panic" THEN "panicked" ELSE "failed"

WaveOptions(r, b) ==
    IF ~r.ok
    THEN /\ wave' = [created |-> FALSE, sample_rate |-> r.rate, buffer_size |-> 0,
                     warnings |-> 0, errors |-> 1, calls |-> 0, pos |-> 0, gate |-> <<>>,
                     released |-> <<>>, finished |-> FALSE]
         /\ pc' = "failed"
         /\ program' = program
    ELSE WaveOpened(r, b, Program_new(graph, rets.root, b.size))

\* run_file's match on output_wave and write_wave up to its loop.
WriteWave ==
    /\ pc = "evaluated"
    /\ IF operands.output_wave
       THEN WaveOptions(wave_sample_rate(operands.sample_rate),
                        wave_buffer_size(operands.buffer_size))
       ELSE /\ pc' = "finished"
            /\ UNCHANGED <<program, wave>>
    /\ UNCHANGED <<lead, input, tlead, toff, pos, toks, exprs, groups, number, errs, result,
                   values, overflowed, snap, operands, rets, env, evlog, outcome, graph,
                   render>>

\* The gate write_wave hands to Program::render at position p.
wave_gate(p, end, buffer_size) ==
    IF p < end /\ end - p < buffer_size THEN <<end - p>> ELSE <<>>

\* The render calls that got a gate: the position of each and its gate.
gate_log(released, p, g) ==
    IF g = <<>> THEN released ELSE Append(released, [pos |-> p, k |-> g[1]])

WaveRendered(g, stops, r) ==
    /\ program' = r.program
    /\ render' = IF r.result = "None" THEN render
                 ELSE <<[result |-> r.result, len |-> r.len, log |-> r.log, stops |-> stops]>>
    /\ wave' = IF r.result = "None"
               THEN [wave EXCEPT !.finished = TRUE, !.gate = g,
                                 !.released = gate_log(@, wave.pos, g)]
               ELSE [wave EXCEPT !.pos = @ + r.len, !.calls = @ + 1, !.gate = g,
                                 !.released = gate_log(@, wave.pos, g)]
    /\ pc' = IF r.result = "None" THEN "finished" ELSE pc

\* One turn of the loop of write_wave; after the loop, Writer::finish.
WaveRender ==
    /\ pc = "wave"
    /\ wave.calls < MaxWaveCalls
    /\ \E stops \in StopChoices(graph, program) :
           WaveRendered(wave_gate(wave.pos, wave.sample_rate, wave.buffer_size), stops,
                        Program_render(program, wave.calls + 1, State_end(<<>>, stops)))
    /\ UNCHANGED <<lead, input, tlead, toff, pos, toks, exprs, groups, number, errs, result,
                   values, overflowed, snap, operands, rets, env, evlog, outcome, graph>>

NextRun == NewParser \/ Parse \/ Finish \/ EvalBegin \/ EvalForm \/ EvalLast \/ WriteWave
           \/ WaveRender

SpecRun == InitRun /\ [][NextRun]_vars

\* "0" and "2147483648", the first integer an i32 cannot hold
Num_0 == <<48>>

Num_2147483648 == <<50, 49, 52, 55, 52, 56, 51, 54, 52, 56>>

\* The forms of the programs that call functions on arguments that fail,
\* and a list that is left open.
ArgForms ==
    {List1(Name_noise),                                       \* (noise)
     Sym_x,                                                   \* x
     List3(Name_define, Sym_x, List1(<<>>)),                  \* (define x ())
     List2(Name_define, Sym_x),                               \* (define x)
     List3(Name_multiply, List1(<<>>), List1(Name_noise)),    \* (* () (noise))
     List3(Name_multiply, List1(Name_noise), List1(<<>>)),    \* (* (noise) ())
     List3(Name_oscillator, List1(<<>>), List1(<<>>)),        \* (oscillator () ())
     List2(Name_noise, List1(Name_noise)),                    \* (noise (noise))
     List2(Name_note, Num_0),                                 \* (note 0)
     List2(Name_note, List1(Name_noise)),                     \* (note (noise))
     List2(Name_note, Num_2147483648),                        \* (note 2147483648)
     LParen \o Name_noise}                                    \* (noise

MaxArgForms == 2

RECURSIVE ArgTextsUpTo(_)
ArgTextsUpTo(n) ==
    IF n = 0 THEN {<<>>}
    ELSE ArgTextsUpTo(n - 1)
         \cup ArgForms
         \cup {t \o Space \o f : t \in ArgTextsUpTo(n - 1) \ {<<>>}, f \in ArgForms}

\* A run of run_file on a program of these forms.
InitArgs ==
    /\ lead = <<0, 0>>
    /\ input \in ArgTextsUpTo(MaxArgForms)
    /\ pc = "start"
    /\ InitFront
    /\ operands \in {[output_wave |-> b, sample_rate |-> <<>>, buffer_size |-> <<>>] :
                         b \in BOOLEAN}
    /\ InitRest

SpecArgs == InitArgs /\ [][NextRun]_vars

\* C38: evaluating the forms of a parsed program never panics.
C38_NoPanic == ~env.panicked

\* The -rate and -buffer-size options write_wave is run with.
RateOptions == {<<>>, <<7999>>, <<8000>>, <<8192>>, <<192001>>}

RequestedSizes ==
    {0, 1, 31, 32, 33, 48, 63, 64, 65, 100, 128, 1000, 1023, 1024, 1025, 2048, 4095, 4096,
     4097, 8191, 8192, 8193, 65536}

SizeOptions == {<<>>} \cup {<<n>> : n \in RequestedSizes}

\* The graphs write_wave is run on: a noise node, and an envelope.
WaveGraphs == {<<GraphNode("Noise", <<>>)>>, <<GraphNode("Envelope", <<>>)>>}

\* A write_wave call on a graph the evaluator returned.
InitWave ==
    /\ lead = <<0, 0>>
    /\ input = <<>>
    /\ pc = "evaluated"
    /\ InitFront
    /\ operands \in [output_wave : {TRUE}, sample_rate : RateOptions, buffer_size : SizeOptions]
    /\ rets = [errs0 |-> 0, root |-> 0]
    /\ env = NoEnv
    /\ evlog = <<>>
    /\ outcome = "Some"
    /\ graph \in WaveGraphs
    /\ program = NoProgram
    /\ render = <<>>
    /\ wave = <<>>

NextWave == WriteWave \/ WaveRender

SpecWave == InitWave /\ [][NextWave]_vars

----------------------------------------------------------------------------
(* signal/envelope.rs: Envelope and EnvelopeF.  A time of a Segment is kept
   in half samples: it stands for (time * sample_rate) as f32, doubled, so
   that time_from has something to round.  A sample value is a sequence of
   integers: <<c>> is the constant c, and v \o <<t, k, n>> is the k-th
   value of the ramp of n steps from the value v to the target t, which is
   how Generator::render accumulates it (cur += delta, k times). *)

MaxSegments == 3     \* most segments of an envelope
MaxEnvRenders == 3   \* most EnvelopeF::render calls on one envelope
EnvBufferSize == 3   \* the length of the output buffer handed to render

Segment(kind, time, value) == [kind |-> kind, time |-> time, value |-> value]

\* time_from of a time given in half samples: f32::round rounds half away
\* from zero, and a negative time is 0.
time_from(half) == IF half >= 0 THEN (half + 1) \div 2 ELSE 0

\* The FSegment pushed for a Segment.
fsegment(seg) ==
    IF seg.kind \in {"Linear", "Delay"} THEN Segment(seg.kind, time_from(seg.time), seg.value)
    ELSE seg

\* add_state: the Section pushed for the segments collected so far.
add_state(states, segments) ==
    Append(states,
           [generator |-> [kind |-> IF states = <<>> THEN "Constant" ELSE "Passthrough",
                           value |-> <<0>>, from |-> <<0>>, target |-> <<0>>, time |-> 0,
                           done |-> 0, total |-> 0],
            time |-> [kind |-> "Done", n |-> 0],
            index |-> 0,
            segments |-> segments])

RECURSIVE instantiate_from(_, _, _, _)
\* The loop of Envelope::instantiate from segment k on, and its end.
instantiate_from(segs, k, states, segments) ==
    IF k > Len(segs) THEN add_state(states, segments)
    ELSE IF segs[k].kind = "Gate"
    THEN instantiate_from(segs, k + 1, add_state(states, segments), <<fsegment(segs[k])>>)
    ELSE instantiate_from(segs, k + 1, states, Append(segments, fsegment(segs[k])))

\* An instantiate that puts every segment into one section.
Envelope_instantiate_flat(segs) ==
    add_state(<<>>, [k \in 1..Len(segs) |-> fsegment(segs[k])])

\* Envelope::instantiate: the sections of the EnvelopeF.
Envelope_instantiate(segs) == instantiate_from(segs, 1, <<>>, <<>>)

\* Generator::value
Generator_value(g) == g.value

Gen(kind, value) ==
    [kind |-> kind, value |-> value, from |-> <<0>>, target |-> <<0>>, time |-> 0, done |-> 0,
     total |-> 0]

\* The k-th value of the ramp of n steps from the value v to the target t.
ramp(v, t, k, n) == v \o <<t[1], k, n>>

\* A Passthrough that does not look at the buffer.
passthrough_render_blind(g, out, lo, hi) == [g |-> g, out |-> out]

\* Generator::render for Passthrough on the slice out[lo..hi].
passthrough_render(g, out, lo, hi) ==
    [g |-> IF hi > lo THEN [g EXCEPT !.value = out[hi]] ELSE g, out |-> out]

\* A Linear generator that holds its last ramp value.
linear_render_no_target(g, out, lo, hi, n) ==
    IF n < g.time
    THEN [g |-> [g EXCEPT !.value = IF n > 0 THEN ramp(g.from, g.target, g.done + n, g.total)
                                    ELSE @,
                          !.time = @ - n,
                          !.done = @ + n],
          out |-> [i \in 1..Len(out) |->
                       IF lo < i /\ i <= lo + n
                       THEN ramp(g.from, g.target, g.done + (i - lo), g.total)
                       ELSE out[i]]]
    ELSE [g |-> Gen("Constant", IF n > 0 THEN ramp(g.from, g.target, g.done + n, g.total)
                                ELSE g.value),
          out |-> [i \in 1..Len(out) |->
                       IF lo < i /\ i <= lo + n
                       THEN ramp(g.from, g.target, g.done + (i - lo), g.total)
                       ELSE out[i]]]

\* Generator::render for Linear on the slice out[lo..hi], n = min(time, len).
linear_render(g, out, lo, hi, n) ==
    IF n < g.time
    THEN [g |-> [g EXCEPT !.value = IF n > 0 THEN ramp(g.from, g.target, g.done + n, g.total)
                                    ELSE @,
                          !.time = @ - n,
                          !.done = @ + n],
          out |-> [i \in 1..Len(out) |->
                       IF lo < i /\ i <= lo + n
                       THEN ramp(g.from, g.target, g.done + (i - lo), g.total)
                       ELSE out[i]]]
    ELSE [g |-> Gen("Constant", g.target),
          out |-> [i \in 1..Len(out) |->
                       IF lo < i /\ i <= lo + n
                       THEN ramp(g.from, g.target, g.done + (i - lo), g.total)
                       ELSE IF lo + n < i /\ i <= hi THEN g.target
                       ELSE out[i]]]

\* Generator::render on the slice out[lo..hi] (positions lo + 1 .. hi).
Generator_render(g, out, lo, hi) ==
    IF g.kind = "Passthrough" THEN passthrough_render(g, out, lo, hi)
    ELSE IF g.kind = "Constant"
    THEN [g |-> g, out |-> [i \in 1..Len(out) |-> IF lo < i /\ i <= hi THEN g.value ELSE out[i]]]
    ELSE linear_render(g, out, lo, hi, Min2(g.time, hi - lo))

Time(kind, n) == [kind |-> kind, n |-> n]

\* What a Section::render in progress holds: the section, the buffer, the
\* State, pos, and whether the last render_next said Continue.
Rendering(sec, out, st, p, continue) ==
    [sec |-> sec, out |-> out, st |-> st, pos |-> p, continue |-> continue]

\* Section::render_full
render_full(x, r) == Rendering([x.sec EXCEPT !.generator = r.g], r.out, x.st, x.pos, TRUE)

\* A render_partial that is done when the time is the length of the slice.
render_partial_inclusive(x, t) ==
    IF t <= Len(x.out) - x.pos
    THEN Rendering([x.sec EXCEPT !.generator =
                        Generator_render(x.sec.generator, x.out, x.pos, x.pos + t).g],
                   Generator_render(x.sec.generator, x.out, x.pos, x.pos + t).out,
                   x.st, x.pos + t, FALSE)
    ELSE Rendering([x.sec EXCEPT !.generator =
                        Generator_render(x.sec.generator, x.out, x.pos, Len(x.out)).g,
                                 !.time = Time("Timed", t - (Len(x.out) - x.pos))],
                   Generator_render(x.sec.generator, x.out, x.pos, Len(x.out)).out,
                   x.st, x.pos, TRUE)

\* Section::render_partial for the time t, on the slice from x.pos on.
render_partial(x, t) ==
    IF t < Len(x.out) - x.pos
    THEN Rendering([x.sec EXCEPT !.generator =
                        Generator_render(x.sec.generator, x.out, x.pos, x.pos + t).g],
                   Generator_render(x.sec.generator, x.out, x.pos, x.pos + t).out,
                   x.st, x.pos + t, FALSE)
    ELSE Rendering([x.sec EXCEPT !.generator =
                        Generator_render(x.sec.generator, x.out, x.pos, Len(x.out)).g,
                                 !.time = Time("Timed", t - (Len(x.out) - x.pos))],
                   Generator_render(x.sec.generator, x.out, x.pos, Len(x.out)).out,
                   x.st, x.pos, TRUE)

\* Section::render_next
render_next(x) ==
    IF x.sec.time.kind = "Done" THEN [x EXCEPT !.continue = FALSE]
    ELSE IF x.sec.time.kind = "Timed" THEN render_partial(x, x.sec.time.n)
    ELSE IF x.sec.time.kind = "Gate" /\ x.st.gate # <<>> THEN render_partial(x, x.st.gate[1])
    ELSE render_full(x, Generator_render(x.sec.generator, x.out, x.pos, Len(x.out)))

\* The arm of Section::advance for the segment seg.
advance_segment(x, seg) ==
    IF seg.kind = "Set"
    THEN [x EXCEPT !.sec.generator = Gen("Constant", seg.value), !.sec.time = Time("Done", 0)]
    ELSE IF seg.kind = "Linear"
    THEN [x EXCEPT !.sec.generator =
                       [kind |-> "Linear", value |-> Generator_value(x.sec.generator),
                        from |-> Generator_value(x.sec.generator), target |-> seg.value,
                        time |-> seg.time, done |-> 0, total |-> seg.time],
                   !.sec.time = Time("Timed", seg.time)]
    ELSE IF seg.kind = "Delay" THEN [x EXCEPT !.sec.time = Time("Timed", seg.time)]
    ELSE IF seg.kind = "Gate" THEN [x EXCEPT !.sec.time = Time("Gate", 0)]
    ELSE [x EXCEPT !.st.end = State_stop(x.st.end, x.pos),
                   !.st.stops = Append(@, x.pos),
                   !.sec.time = Time("Done", 0)]

\* Section::advance
advance(x) ==
    IF x.sec.index >= Len(x.sec.segments) THEN [x EXCEPT !.sec.time = Time("Forever", 0)]
    ELSE advance_segment([x EXCEPT !.sec.index = @ + 1], x.sec.segments[x.sec.index + 1])

RECURSIVE section_loop(_)
\* The loop of Section::render, after a render_next.
section_loop(x) == IF x.continue THEN x ELSE section_loop(render_next(advance(x)))

\* Section::render
Section_render(sec, out, st) == section_loop(render_next(Rendering(sec, out, st, 0, FALSE)))

RECURSIVE sections_render(_, _, _, _, _)
\* The loop of EnvelopeF::render from section k on; trace holds the buffer
\* as each section left it.
sections_render(secs, k, out, st, trace) ==
    IF k > Len(secs) THEN [sections |-> secs, out |-> out, st |-> st, trace |-> trace]
    ELSE sections_render([secs EXCEPT ![k] = Section_render(secs[k], out, st).sec],
                         k + 1,
                         Section_render(secs[k], out, st).out,
                         Section_render(secs[k], out, st).st,
                         Append(trace, Section_render(secs[k], out, st).out))

\* EnvelopeF::render on the buffer `out`, with the gate of the Input.
EnvelopeF_render(secs, out, gate) ==
    sections_render(secs, 1, out, [gate |-> gate, end |-> <<>>, stops |-> <<>>], <<>>)

\* The segments the envelopes are made of.
SegmentChoices ==
    {Segment("Set", 0, <<1>>), Segment("Linear", -1, <<2>>), Segment("Linear", 3, <<2>>),
     Segment("Linear", 12, <<3>>), Segment("Delay", 4, <<0>>), Segment("Gate", 0, <<0>>),
     Segment("Stop", 0, <<0>>), Segment("Exponential", 6, <<0>>)}

\* The gates of the Input of a render call.
GateChoices == {<<>>} \cup {<<t>> : t \in 0..EnvBufferSize}

InitEnv ==
    /\ lead = <<0, 0>>
    /\ input = <<>>
    /\ pc = "envelope"
    /\ InitFront
    /\ operands \in UNION {[1..n -> SegmentChoices] : n \in 0..MaxSegments}
    /\ InitRest

\* Envelope::instantiate on the envelope.
EnvInstantiate ==
    /\ pc = "envelope"
    /\ rets' = Envelope_instantiate(operands)
    /\ wave' = [k \in 1..EnvBufferSize |-> <<-1>>]
    /\ pc' = "envrender"
    /\ UNCHANGED <<frontvarsButPc, operands, env, evlog, outcome, graph, program, render>>

EnvRendered(gate, r) ==
    /\ rets' = r.sections
    /\ wave' = r.out
    /\ render' = Append(render, [gate |-> gate, before |-> rets, stale |-> wave, out |-> r.out,
                                 trace |-> r.trace, stops |-> r.st.stops, end |-> r.st.end,
                                 after |-> r.sections])

\* An EnvelopeF::render call on the buffer the last call left.  The renders
\* followed are those of envelopes without Exponential segments, whose
\* length is a logarithm of float values.
EnvRender ==
    /\ pc = "envrender"
    /\ Len(render) < MaxEnvRenders
    /\ \A k \in 1..Len(operands) : operands[k].kind # "Exponential"
    /\ \E gate \in GateChoices : EnvRendered(gate, EnvelopeF_render(rets, wave, gate))
    /\ UNCHANGED <<frontvars, operands, env, evlog, outcome, graph, program>>

NextEnv == EnvInstantiate \/ EnvRender

SpecEnv == InitEnv /\ [][NextEnv]_vars

----------------------------------------------------------------------------
(* Claims about the envelope (checked under SpecEnv). *)

Gates(segs) == {k \in 1..Len(segs) : segs[k].kind = "Gate"}

RECURSIVE Concat(_)
Concat(ss) == IF ss = <<>> THEN <<>> ELSE Head(ss) \o Concat(Tail(ss))

\* C25: an envelope with g Gate segments has g + 1 sections; section 0
\* holds the segments before the first Gate and no Gate; every later
\* section starts with a Gate and holds the segments up to the next Gate;
\* the sections' segments, one after the other, are the envelope's
\* segments in order, Stop unchanged.
C25_Sections ==
    pc = "envrender" =>
        /\ Len(rets) = Cardinality(Gates(operands)) + 1
        /\ Gates(rets[1].segments) = {}
        /\ \A k \in 2..Len(rets) : Gates(rets[k].segments) = {1}
        /\ Len(Concat([k \in 1..Len(rets) |-> rets[k].segments])) = Len(operands)
        /\ \A i \in 1..Len(operands) :
               /\ Concat([k \in 1..Len(rets) |-> rets[k].segments])[i].kind = operands[i].kind
               /\ Concat([k \in 1..Len(rets) |-> rets[k].segments])[i].value = operands[i].value
               /\ operands[i].kind = "Stop" =>
                      Concat([k \in 1..Len(rets) |-> rets[k].segments])[i] = operands[i]

\* Two gates, the second right after the first, and a Stop.
C25_Witness ==
    /\ pc = "envrender"
    /\ Len(operands) = 3
    /\ operands[1].kind = "Gate" /\ operands[2].kind = "Gate" /\ operands[3].kind = "Stop"
    /\ Len(rets) = 3
    /\ rets[1].segments = <<>>
    /\ Len(rets[3].segments) = 2

\* The samples of all the render calls so far, one buffer after the other.
Samples == Concat([i \in 1..Len(render) |-> render[i].out])

IsRamp(v) == Len(v) >= 4

RampFrom(v) == SubSeq(v, 1, Len(v) - 3)

RampTarget(v) == <<v[Len(v) - 2]>>

RampStep(v) == v[Len(v) - 1]

RampLength(v) == v[Len(v)]

\* The section's current segment is a Linear one.
InLinear(sec) == sec.index >= 1 /\ sec.segments[sec.index].kind = "Linear"

\* Where a section in a Linear segment of n samples stands between two
\* render calls: in the ramp, with the generator and the section agreeing
\* on the samples left, or past it, at the target.
LinearInStep(sec) ==
    \/ /\ sec.generator.kind = "Linear"
       /\ sec.generator.time >= 1
       /\ sec.time = Time("Timed", sec.generator.time)
       /\ sec.generator.done + sec.generator.time = sec.segments[sec.index].time
       /\ sec.generator.target = sec.segments[sec.index].value
       /\ sec.generator.value =
              IF sec.generator.done = 0 THEN sec.generator.from
              ELSE ramp(sec.generator.from, sec.generator.target, sec.generator.done,
                        sec.segments[sec.index].time)
    \/ /\ sec.generator = Gen("Constant", sec.segments[sec.index].value)
       /\ sec.time \in {Time("Timed", 0), Time("Forever", 0)}

\* The segments that set a value and take no sample.
Instant(seg) == seg.kind = "Set" \/ (seg.kind = "Linear" /\ time_from(seg.time) = 0)

\* What the segment after a ramp to the target t starts from: the target,
\* or the value of a segment that takes no sample.
StartValues(t) ==
    {t} \cup {operands[k].value : k \in {j \in 1..Len(operands) : Instant(operands[j])}}

\* The ramp sample at position i of the samples is followed by the next
\* sample of its ramp, or after the last one by the target or by what the
\* next segment makes of the target; and it follows the sample before it
\* in the ramp.
RampInOrder(i) ==
    /\ RampStep(Samples[i]) \in 1..RampLength(Samples[i])
    /\ RampStep(Samples[i]) > 1 =>
           /\ i > 1
           /\ Samples[i - 1] = [Samples[i] EXCEPT ![Len(Samples[i]) - 1] = @ - 1]
    /\ (i < Len(Samples) /\ RampStep(Samples[i]) < RampLength(Samples[i])) =>
           Samples[i + 1] = [Samples[i] EXCEPT ![Len(Samples[i]) - 1] = @ + 1]
    /\ (i < Len(Samples) /\ RampStep(Samples[i]) = RampLength(Samples[i])) =>
           \/ Samples[i + 1] \in StartValues(RampTarget(Samples[i]))
           \/ /\ IsRamp(Samples[i + 1])
              /\ RampFrom(Samples[i + 1]) \in StartValues(RampTarget(Samples[i]))
              /\ RampStep(Samples[i + 1]) = 1

\* C27: a Linear segment of n samples takes exactly n samples of output,
\* however the render calls split them, n = 0 and n a multiple of the
\* buffer size included: the generator's and the section's counters agree
\* and end together, the generator is then Constant{target}, and the
\* samples after the n-th, and the next segment, start from the target.
C27_LinearLength ==
    pc = "envrender" =>
        /\ \A k \in 1..Len(rets) : InLinear(rets[k]) => LinearInStep(rets[k])
        /\ \A k \in 1..Len(rets) : rets[k].generator.kind = "Linear" => InLinear(rets[k])
        /\ Gates(operands) = {} =>
               \A i \in 1..Len(Samples) : IsRamp(Samples[i]) => RampInOrder(i)

\* A ramp of six samples, two buffers long, that a zero-length ramp
\* follows: after the second call the first ramp has ended with the buffer,
\* and the third call holds the second target from its first sample on.
C27_Witness ==
    /\ pc = "envrender"
    /\ Len(operands) = 2
    /\ operands[1] = Segment("Linear", 12, <<3>>)
    /\ operands[2] = Segment("Linear", -1, <<2>>)
    /\ Len(render) = 3
    /\ render[2].out[EnvBufferSize] = ramp(<<0>>, <<3>>, 6, 6)
    /\ render[2].after[1].generator = Gen("Constant", <<3>>)
    /\ render[2].after[1].time = Time("Timed", 0)
    /\ render[3].out[1] = <<2>>
    /\ rets[1].generator = Gen("Constant", <<2>>)

\* The buffer as section k of the render call r found it.
PrevOut(r, k) == IF k = 1 THEN r.stale ELSE r.trace[k - 1]

\* The section has not yet seen its gate release.
Waiting(sec) == sec.index = 0 \/ (sec.index = 1 /\ sec.time.kind = "Gate")

\* The offsets in the buffer of the call r at which the gate of section k,
\* a section after a Gate, releases: the gate of the Input, or what is left
\* of a gate that lay past the end of an earlier buffer.
ReleaseAt(r, k) ==
    IF Waiting(r.before[k]) /\ r.gate # <<>>
    THEN {t \in {r.gate[1]} : t < Len(r.out)}
    ELSE IF r.before[k].index = 1 /\ r.before[k].time.kind = "Timed"
    THEN {t \in {r.before[k].time.n} : t < Len(r.out)}
    ELSE {}

\* The values the segments of a section set or move to.
SegValues(sec) ==
    {sec.segments[j].value : j \in {i \in 1..Len(sec.segments) :
                                        sec.segments[i].kind \in {"Set", "Linear"}}}

\* The sample v is one the section makes, `seed` being the value it took
\* over from the earlier sections.
Written(v, sec, seed) ==
    \/ v \in SegValues(sec)
    \/ /\ IsRamp(v)
       /\ RampFrom(v) \in {seed} \cup SegValues(sec)
       /\ RampTarget(v) \in SegValues(sec)

\* The last sample before the offset t of the buffer section k found, or
\* the last one of the buffers before that.
SeedAt(r, k, t) == IF t > 0 THEN PrevOut(r, k)[t] ELSE r.before[k].generator.value

\* The section makes samples from its release on: a Set or Linear segment
\* follows its Gate.
Generating(sec) == Len(sec.segments) >= 2 /\ sec.segments[2].kind \in {"Set", "Linear"}

\* A section that is waiting for the gate, or passes through, writes
\* nothing and remembers the last sample of the buffer.
PassesThrough(r, k) ==
    /\ (Waiting(r.before[k]) /\ r.gate = <<>>) =>
           /\ r.after[k].time = Time("Gate", 0)
           /\ r.after[k].generator.kind = "Passthrough"
    /\ r.after[k].generator.kind = "Passthrough" =>
           /\ r.trace[k] = PrevOut(r, k)
           /\ r.after[k].generator.value = r.trace[k][Len(r.out)]

\* From the release at the offset t on, the samples are those of section
\* k, which start from the last sample before the release.
Overrides(r, k, t) ==
    /\ r.after[k].generator.kind # "Passthrough"
    /\ \A j \in (t + 1)..Len(r.out) : Written(r.trace[k][j], r.after[k], SeedAt(r, k, t))
    /\ \A j \in 1..t : r.trace[k][j] = PrevOut(r, k)[j]
    /\ (r.after[k].segments[2].kind = "Linear" /\ r.after[k].segments[2].time >= 1) =>
           r.trace[k][t + 1] = ramp(SeedAt(r, k, t), r.after[k].segments[2].value, 1,
                                    r.after[k].segments[2].time)

\* The sections after the first one, in the render calls so far.
LaterSections == {c \in (1..Len(render)) \X (2..Len(rets)) : TRUE}

RECURSIVE section_turns(_)
\* The turns of the loop of Section::render that do not return, from the
\* render_next result x on: each of them calls advance.
section_turns(x) == IF x.continue THEN 0 ELSE 1 + section_turns(render_next(advance(x)))

\* The turns section k took in the render call r.
Turns(r, k) ==
    section_turns(render_next(Rendering(r.before[k], PrevOut(r, k),
                                        [gate |-> r.gate, end |-> <<>>, stops |-> <<>>],
                                        0, FALSE)))

\* The section entered Forever in the call.
EntersForever(r, k) == r.after[k].time.kind = "Forever" /\ r.before[k].time.kind # "Forever"

\* All the sections, in the render calls so far.
AllSections == {c \in (1..Len(render)) \X (1..Len(rets)) : TRUE}

----------------------------------------------------------------------------
(* rand.rs: Rand, a PCG generator.  A u64 is its eight bytes, the least
   significant first; a u32 is <<high half, low half>>. *)

MaxNoiseLeaves == 2
MaxNoiseRenders == 2
NoiseBufferSize == 2

\* 2^n
RECURSIVE Pow2(_)
Pow2(n) == IF n = 0 THEN 1 ELSE 2 * Pow2(n - 1)

RECURSIVE propagate(_, _, _)
\* The bytes of the sum of cols[k] * 256^(k-1), k from `k` on, modulo 2^64.
propagate(cols, k, carry) ==
    IF k > 8 THEN <<>>
    ELSE <<(cols[k] + carry) % 256>> \o propagate(cols, k + 1, (cols[k] + carry) \div 256)

RECURSIVE column_sum(_, _, _, _)
\* The sum of a[i] * b[k + 1 - i] for i in i..k.
column_sum(a, b, k, i) ==
    IF i > k THEN 0 ELSE a[i] * b[k + 1 - i] + column_sum(a, b, k, i + 1)

\* u64::overflowing_mul(a, b).0
u64_overflowing_mul(a, b) == propagate([k \in 1..8 |-> column_sum(a, b, k, 1)], 1, 0)

\* u64::overflowing_add(a, b).0
u64_overflowing_add(a, b) == propagate([k \in 1..8 |-> a[k] + b[k]], 1, 0)

\* 6364136223846793005 = 0x5851F42D4C957F2D
PCG_MULTIPLIER == <<45, 127, 149, 76, 45, 244, 81, 88>>

\* Rand::with_default_seed: state 0x853c49e6748fea9b, inc 0xda3e39cb94b95bdb.
Rand_with_default_seed ==
    [state |-> <<155, 234, 143, 116, 230, 73, 60, 133>>,
     inc |-> <<219, 91, 185, 148, 203, 57, 62, 218>>]

\* Bit i of the u64 s.
Bit(s, i) == (s[(i \div 8) + 1] \div Pow2(i % 8)) % 2

\* Bit j of (((state >> 18) ^ state) >> 27) as u32.
xorshifted(s, j) ==
    IF j + 45 <= 63 THEN (Bit(s, j + 27) + Bit(s, j + 45)) % 2 ELSE Bit(s, j + 27)

\* Bit k of xorshifted.rotate_right((state >> 59) as u32).
rotated(s, k) == xorshifted(s, (k + (s[8] \div 8)) % 32)

RECURSIVE half_word(_, _, _)
\* The 16 bits of the output from bit `base` on, bit k of them upward.
half_word(s, base, k) ==
    IF k > 15 THEN 0 ELSE rotated(s, base + k) * Pow2(k) + half_word(s, base, k + 1)

\* A generator that does not move.
Rand_next_stuck(rand) ==
    [rand |-> rand, out |-> <<half_word(rand.state, 16, 0), half_word(rand.state, 0, 0)>>]

\* Rand::next
Rand_next(rand) ==
    [rand |-> [rand EXCEPT !.state = u64_overflowing_add(
                                   u64_overflowing_mul(rand.state, PCG_MULTIPLIER),
                                   rand.inc)],
     out |-> <<half_word(rand.state, 16, 0), half_word(rand.state, 0, 0)>>]

\* n / 2^d rounded to the nearest integer, a tie to the even one.
round_shift(n, d) ==
    IF (n % Pow2(d)) * 2 > Pow2(d) \/ ((n % Pow2(d)) * 2 = Pow2(d) /\ (n \div Pow2(d)) % 2 = 1)
    THEN n \div Pow2(d) + 1
    ELSE n \div Pow2(d)

RECURSIVE bit_length(_)
\* The number of bits of n.
bit_length(n) == IF n = 0 THEN 0 ELSE 1 + bit_length(n \div 2)

\* The bits a u32 loses when it becomes an f32 of 24 bits.
dropped_bits(u) == IF bit_length(u[1]) > 8 THEN bit_length(u[1]) - 8 ELSE 0

\* The mantissa of (u as f32): u / 2^d for the d dropped bits, rounded.
mantissa(u, d) ==
    IF d = 0 THEN u[1] * 65536 + u[2]
    ELSE IF (u[2] % Pow2(d)) * 2 > Pow2(d)
            \/ ((u[2] % Pow2(d)) * 2 = Pow2(d) /\ (u[2] \div Pow2(d)) % 2 = 1)
    THEN u[1] * Pow2(16 - d) + u[2] \div Pow2(d) + 1
    ELSE u[1] * Pow2(16 - d) + u[2] \div Pow2(d)

\* (m * 2^d) * (1.0 / 4294967296.0) * 2.0 - 1.0 in f32, in units of 2^-24:
\* the scalings are exact and the subtraction rounds to the unit.
noise_sample(m, d) ==
    IF d >= 7 THEN m * Pow2(d - 7) - 16777216 ELSE round_shift(m, 7 - d) - 16777216

\* rand.next_float() * 2.0 - 1.0 for the output u of Rand::next.
noise_from(u) == noise_sample(mantissa(u, dropped_bits(u)), dropped_bits(u))

----------------------------------------------------------------------------
(* signal/ops.rs: the functions of Noise, Zero and Multiply, and
   Program::render with them.  A sample is a term: an f32 in units of
   2^-24, or the product of two samples. *)

F32(v) == [op |-> "f32", v |-> v, args |-> <<>>]

Product(x, y) == [op |-> "mul", v |-> 0, args |-> <<x, y>>]

RECURSIVE noise_fill(_, _, _)
\* The loop of NoiseF::render with n samples to go.
noise_fill(rand, n, out) ==
    IF n = 0 THEN [rand |-> rand, out |-> out]
    ELSE noise_fill(Rand_next(rand).rand, n - 1,
                    Append(out, F32(noise_from(Rand_next(rand).out))))

\* NoiseF::render: the samples are drawn from the Rand state.rand() gives.
NoiseF_render(rand, size) == noise_fill(rand, size, <<>>)

\* ZeroF::render
ZeroF_render(size) == [i \in 1..size |-> F32(0)]

\* MultiplyF::render
MultiplyF_render(x, y) == [i \in 1..Min2(Len(x), Len(y)) |-> Product(x[i], y[i])]

\* Function::render of the compiled node `node`, with the outputs of the
\* nodes before it and the Rand of the State.
Function_render(kind, node, outs, rand, size) ==
    IF kind = "Noise" THEN NoiseF_render(rand, size)
    ELSE IF kind = "Zero" THEN [rand |-> rand, out |-> ZeroF_render(size)]
    ELSE [rand |-> rand,
          out |-> MultiplyF_render(outs[node.inputs[1] + 1], outs[node.inputs[2] + 1])]

RECURSIVE render_functions(_, _, _, _, _, _)
\* The loop of Program::render from node n on: what the functions write.
render_functions(gnodes, nodes, n, outs, rand, size) ==
    IF n = Len(nodes) THEN [outs |-> outs, rand |-> rand]
    ELSE render_functions(
             gnodes, nodes, n + 1,
             Append(outs, Function_render(gnodes[nodes[n + 1].node + 1].kind, nodes[n + 1],
                                          outs, rand, size).out),
             Function_render(gnodes[nodes[n + 1].node + 1].kind, nodes[n + 1],
                             outs, rand, size).rand,
             size)

\* Where the State of a render call has its Rand from: a State made for the
\* call has a Rand with the default seed, or the Program carries the Rand
\* from call to call.
Seedings == {"State", "Program"}

\* State::rand at the start of a render call.
State_rand(seeding, carried) ==
    IF seeding = "State" THEN Rand_with_default_seed ELSE carried

\* A Rand that all the Programs share.
Program_rand_shared(rands, w) == rands[1]

\* The Rand the Program w carries.
Program_rand(rands, w) == rands[w]

\* The leaves of the graphs, and the graphs: the leaves alone, the last one
\* the output, or a Multiply of two of them as the output.
NoiseLeaves == UNION {[1..n -> {GraphNode("Noise", <<>>), GraphNode("Zero", <<>>)}] :
                          n \in 1..MaxNoiseLeaves}

NoiseGraphs ==
    NoiseLeaves
    \cup {Append(l, GraphNode("Multiply", <<i, j>>)) :
              l \in NoiseLeaves, i \in 0..(MaxNoiseLeaves - 1), j \in 0..(MaxNoiseLeaves - 1)}

\* The notes of the Inputs.
NoteChoices == {0, 1}

InitNoise ==
    /\ lead = <<0, 0>>
    /\ input = <<>>
    /\ pc = "noise"
    /\ InitFront
    /\ operands = <<>>
    /\ rets = 0
    /\ env = <<>>
    /\ evlog = <<>>
    /\ outcome = "None"
    /\ graph \in {g \in NoiseGraphs :
                      \A k \in 1..Len(g) : \A i \in 1..Len(g[k].inputs) : g[k].inputs[i] < k - 1}
    /\ \E seeding \in Seedings :
           program = [seeding |-> seeding,
                      progs |-> [w \in 1..2 |->
                                     Program_new(graph, Len(graph) - 1, NoiseBufferSize)],
                      rands |-> [w \in 1..2 |-> Rand_with_default_seed]]
    /\ render = <<<<>>, <<>>>>
    /\ wave = <<>>

\* What a render call of the Program w leaves: r is Program::render on the
\* windows, f what the functions wrote.
NoiseRendered(w, pitch, r, f) ==
    /\ program' = [program EXCEPT !.progs[w] = r.program,
                                  !.rands[w] = IF program.seeding = "Program" THEN f.rand
                                               ELSE @]
    /\ render' = [render EXCEPT ![w] =
                      Append(@, [note |-> pitch, outs |-> f.outs,
                                 result |-> SubSeq(f.outs[Len(f.outs)], 1, r.len)])]

\* A Program::render call on one of two Programs made from the same graph.
NoiseRender ==
    /\ pc = "noise"
    /\ \E w \in 1..2, pitch \in NoteChoices :
           /\ Len(render[w]) < MaxNoiseRenders
           /\ NoiseRendered(w, pitch,
                            Program_render(program.progs[w], Len(render[w]) + 1, <<>>),
                            render_functions(graph, program.progs[w].nodes, 0, <<>>,
                                             State_rand(program.seeding,
                                                        Program_rand(program.rands, w)),
                                             NoiseBufferSize))
    /\ UNCHANGED <<frontvars, operands, rets, env, evlog, outcome, graph, wave>>

NextNoise == NoiseRender

SpecNoise == InitNoise /\ [][NextNoise]_vars

----------------------------------------------------------------------------
(* Claims about the noise (checked under SpecNoise). *)

RECURSIVE lone_rand(_, _)
\* The Rand a Program of one noise node starts its call c with.
lone_rand(seeding, c) ==
    IF c = 1 \/ seeding = "State" THEN Rand_with_default_seed
    ELSE NoiseF_render(lone_rand(seeding, c - 1), NoiseBufferSize).rand

\* The samples a Program of one noise node returns in its call c.
LoneNoise(seeding, c) == NoiseF_render(lone_rand(seeding, c), NoiseBufferSize).out

\* The compiled nodes that are noise nodes.
NoiseNodes(w) ==
    {k \in 1..Len(program.progs[w].nodes) :
         graph[program.progs[w].nodes[k].node + 1].kind = "Noise"}

\* C23: the samples of a noise node do not depend on the other noise nodes
\* of the program: in every call they are the samples it makes alone.
C23_OwnGenerator ==
    pc = "noise" =>
        \A w \in 1..2 : \A c \in 1..Len(render[w]) : \A k \in NoiseNodes(w) :
            render[w][c].outs[k] = LoneNoise(program.seeding, c)

\* The calls c of the two Programs had the same Inputs, as all before them.
SameInputs(c) == \A i \in 1..c : render[1][i].note = render[2][i].note

----------------------------------------------------------------------------
(* wave.rs: Writer.  The bytes of the buffer and of the stream are kept as
   runs: [kind |-> "zero", len] for bytes that are 0, [kind |-> "samples",
   len, first] for the 16-bit values of the samples numbered first,
   first + 1, ... in the order they were handed to write, and [kind |->
   "header", len, header] for the bytes of a Header. *)

BUFFER_SIZE == 32768

HEADER_SIZE == 44

Run(kind, len, first) == [kind |-> kind, len |-> len, first |-> first, header |-> <<>>]

\* The run r added after the runs rs.
push_run(rs, r) ==
    IF r.len = 0 THEN rs
    ELSE IF /\ rs # <<>>
            /\ rs[Len(rs)].kind = "samples" /\ r.kind = "samples"
            /\ rs[Len(rs)].first + rs[Len(rs)].len \div 2 = r.first
    THEN [rs EXCEPT ![Len(rs)].len = @ + r.len]
    ELSE Append(rs, r)

RECURSIVE push_runs(_, _)
push_runs(rs, more) ==
    IF more = <<>> THEN rs ELSE push_runs(push_run(rs, Head(more)), Tail(more))

RECURSIVE runs_len(_)
runs_len(rs) == IF rs = <<>> THEN 0 ELSE Head(rs).len + runs_len(Tail(rs))

RECURSIVE drop_bytes(_, _)
\* The runs rs without their first n bytes.
drop_bytes(rs, n) ==
    IF n = 0 \/ rs = <<>> THEN rs
    ELSE IF Head(rs).len <= n THEN drop_bytes(Tail(rs), n - Head(rs).len)
    ELSE <<[Head(rs) EXCEPT !.len = @ - n,
                            !.first = IF Head(rs).kind = "samples" THEN @ + n \div 2 ELSE @]>>
         \o Tail(rs)

\* Header::to_bytes: the fields, in order, with the bytes each takes.
Header_to_bytes(frame_count, channel_count, sample_rate) ==
    <<[name |-> "RIFF", size |-> 4, value |-> 0],
      [name |-> "ChunkSize", size |-> 4, value |-> frame_count * (channel_count * 2) + 36],
      [name |-> "WAVE", size |-> 4, value |-> 0],
      [name |-> "fmt ", size |-> 4, value |-> 0],
      [name |-> "Subchunk1Size", size |-> 4, value |-> 16],
      [name |-> "Format", size |-> 2, value |-> 1],
      [name |-> "Channels", size |-> 2, value |-> channel_count],
      [name |-> "SampleRate", size |-> 4, value |-> sample_rate],
      [name |-> "ByteRate", size |-> 4, value |-> sample_rate * (channel_count * 2)],
      [name |-> "BlockAlign", size |-> 2, value |-> channel_count * 2],
      [name |-> "BitsPerSample", size |-> 2, value |-> 16],
      [name |-> "data", size |-> 4, value |-> 0],
      [name |-> "Subchunk2Size", size |-> 4, value |-> frame_count * (channel_count * 2)]>>

RECURSIVE header_len(_)
header_len(h) == IF h = <<>> THEN 0 ELSE Head(h).size + header_len(Tail(h))

\* A writer whose buffer has no room set aside for the header.
Writer_from_stream_unreserved(sample_rate) ==
    [buf |-> <<>>, buf_pos |-> 0, sample_count |-> 0, channel_count |-> 1,
     sample_rate |-> sample_rate, stream |-> <<>>, finished |-> FALSE]

\* Writer::from_stream, with the parameters write_wave gives it.
Writer_from_stream(sample_rate) ==
    [buf |-> <<Run("zero", HEADER_SIZE, 0)>>, buf_pos |-> HEADER_SIZE, sample_count |-> 0,
     channel_count |-> 1, sample_rate |-> sample_rate, stream |-> <<>>, finished |-> FALSE]

\* One turn of the loop of Writer::write that takes n samples.
write_turn(w, n) ==
    IF w.buf_pos + n * 2 = BUFFER_SIZE
    THEN [w EXCEPT !.stream = push_runs(@, push_run(w.buf, Run("samples", n * 2,
                                                                w.sample_count + 1))),
                   !.buf = <<>>,
                   !.buf_pos = 0,
                   !.sample_count = @ + n]
    ELSE [w EXCEPT !.buf = push_run(@, Run("samples", n * 2, w.sample_count + 1)),
                   !.buf_pos = @ + n * 2,
                   !.sample_count = @ + n]

RECURSIVE Writer_write(_, _)
\* Writer::write of d samples.
Writer_write(w, d) ==
    IF d = 0 THEN w
    ELSE Writer_write(write_turn(w, Min2(d, (BUFFER_SIZE - w.buf_pos) \div 2)),
                      d - Min2(d, (BUFFER_SIZE - w.buf_pos) \div 2))

\* seek(SeekFrom::Start(0)) and write_all(header) on the stream.
write_header(stream, h) ==
    <<[kind |-> "header", len |-> header_len(h), first |-> 0, header |-> h]>>
    \o drop_bytes(stream, header_len(h))

\* Writer::finish
Writer_finish(w) ==
    [w EXCEPT !.stream = write_header(IF w.buf_pos > 0 THEN push_runs(w.stream, w.buf)
                                      ELSE w.stream,
                                      Header_to_bytes(w.sample_count \div w.channel_count,
                                                      w.channel_count, w.sample_rate)),
              !.finished = TRUE]

\* The sizes of the chunks handed to write.
ChunkSizes == {0, 1, 2, 1024, 16361, 16362, 16363, 16384, 32768, 40000}

InitWriter ==
    /\ lead = <<0, 0>>
    /\ input = <<>>
    /\ pc = "writer"
    /\ InitFront
    /\ operands \in UNION {[1..n -> ChunkSizes] : n \in 0..MaxWrites}
    /\ rets = 0
    /\ env = NoEnv
    /\ evlog = <<>>
    /\ outcome = "none"
    /\ graph = <<>>
    /\ program = NoProgram
    /\ render = <<>>
    /\ wave = Writer_from_stream(DEFAULT_SAMPLE_RATE)

\* A Writer::write call with the next chunk.
WriterWrite ==
    /\ pc = "writer"
    /\ rets < Len(operands)
    /\ wave' = Writer_write(wave, operands[rets + 1])
    /\ rets' = rets + 1
    /\ UNCHANGED <<frontvars, operands, env, evlog, outcome, graph, program, render>>

\* The Writer::finish call after the last chunk.
WriterFinish ==
    /\ pc = "writer"
    /\ rets = Len(operands)
    /\ wave' = Writer_finish(wave)
    /\ pc' = "finished"
    /\ UNCHANGED <<frontvarsButPc, operands, rets, env, evlog, outcome, graph, program, render>>

NextWriter == WriterWrite \/ WriterFinish

SpecWriter == InitWriter /\ [][NextWriter]_vars

RECURSIVE SumTo(_, _)
SumTo(chunks, n) == IF n = 0 THEN 0 ELSE chunks[n] + SumTo(chunks, n - 1)

HeaderField(h, name) == (CHOOSE i \in 1..Len(h) : h[i].name = name)

\* C29: after writes of N samples in all, in chunks of any sizes, and
\* finish, the stream holds 44 + 2N bytes: a header of 44 bytes at offset 0
\* with ChunkSize 36 + 2N and data size 2N, then the N samples in the order
\* they were written.
C29_WaveStream ==
    /\ pc = "writer" =>
           /\ runs_len(wave.stream) + wave.buf_pos = 44 + 2 * SumTo(operands, rets)
           /\ wave.sample_count = SumTo(operands, rets)
    /\ pc = "finished" =>
           /\ runs_len(wave.stream) = 44 + 2 * SumTo(operands, Len(operands))
           /\ wave.stream[1].kind = "header" /\ wave.stream[1].len = 44
           /\ wave.stream[1].header[HeaderField(wave.stream[1].header, "ChunkSize")].value
                  = 36 + 2 * SumTo(operands, Len(operands))
           /\ wave.stream[1].header[HeaderField(wave.stream[1].header, "Subchunk2Size")].value
                  = 2 * SumTo(operands, Len(operands))
           /\ Tail(wave.stream)
                  = IF SumTo(operands, Len(operands)) = 0 THEN <<>>
                    ELSE <<Run("samples", 2 * SumTo(operands, Len(operands)), 1)>>

\* Chunks that end before, at and after the end of the internal buffer.
C29_Witness ==
    /\ pc = "finished"
    /\ Len(operands) = 3
    /\ operands[1] = 16361
    /\ operands[2] = 2
    /\ operands[3] = 40000
    /\ runs_len(wave.stream) = 44 + 2 * 56363

----------------------------------------------------------------------------
(* Claims about write_wave. *)

RECURSIVE IsPowerOfTwo(_)
IsPowerOfTwo(n) == n = 1 \/ (n > 1 /\ n % 2 = 0 /\ IsPowerOfTwo(n \div 2))

\* The size write_wave settled on for the requested size n.
SizeFor(n, size) ==
    /\ n < 32 => size = 32
    /\ n > 8192 => size = 8192
    /\ (32 <= n /\ n <= 8192) => (size >= n /\ size < 2 * n)

\* C30: the buffer size given to Program::new is a power of two in
\* [32, 8192]: 32 for a request below 32, 8192 for one above 8192, the next
\* power of two for one in range; each adjustment is a warning and never
\* an error; 1024 when the option is absent.
C30_BufferSize ==
    (wave # <<>> /\ wave_sample_rate(operands.sample_rate).ok) =>
        /\ IsPowerOfTwo(wave.buffer_size)
        /\ 32 <= wave.buffer_size /\ wave.buffer_size <= 8192
        /\ operands.buffer_size = <<>> => (wave.buffer_size = 1024 /\ wave.warnings = 0)
        /\ operands.buffer_size # <<>> =>
               /\ SizeFor(operands.buffer_size[1], wave.buffer_size)
               /\ wave.warnings = IF wave.buffer_size = operands.buffer_size[1] THEN 0 ELSE 1
        /\ wave.errors = 0
        /\ wave.created
        /\ program.state = "Ok" /\ program.buffer_size = wave.buffer_size

\* 33 was asked for and 64 is used, with a warning.
C30_Witness ==
    /\ pc = "wave"
    /\ operands.buffer_size = <<33>>
    /\ wave.buffer_size = 64
    /\ wave.warnings = 1
    /\ program.buffer_size = 64
    /\ wave.calls >= 1

\* C28 as stated: a program with no envelope is written as a file of one
\* second: the loop of write_wave gets None from Program::render once
\* sample_rate frames are written.
C28_OneSecondFile ==
    (pc \in {"wave", "finished"} /\ wave # <<>>) =>
        /\ wave.pos <= wave.sample_rate
        /\ wave.pos >= wave.sample_rate => program.done

\* C36 as stated: whatever the sample rate and the buffer size, one render
\* call of write_wave gets gate = Some(k), at the position sample_rate - k,
\* and no other call gets a gate: once sample_rate samples are rendered
\* the release has been delivered.
C36_GateDelivered ==
    (pc \in {"wave", "finished"} /\ wave # <<>>) =>
        /\ Len(wave.released) <= 1
        /\ \A i \in 1..Len(wave.released) :
               wave.released[i].pos + wave.released[i].k = wave.sample_rate
        /\ wave.pos >= wave.sample_rate => Len(wave.released) = 1

----------------------------------------------------------------------------
(* Claims about the evaluator (checked under SpecRun). *)

\* evaluate_program has returned.
Returned == outcome # "none"

\* The diagnostics after form k was evaluated and checked.
ErrsAfter(k) == IF k < Len(evlog) THEN evlog[k + 1].before.errs ELSE errs

HasDiag(es, msg) == \E i \in 1..Len(es) : es[i].msg = msg

LastDiag(es, msg, span) == es # <<>> /\ es[Len(es)].msg = msg /\ es[Len(es)].pos = span

\* Some is returned exactly when evaluation added no diagnostic; has_error
\* is set where a diagnostic of the Env was added; Some carries the graph
\* of an Env whose has_error is not set, and only that graph is compiled.
ReturnsGraphIffQuiet ==
    /\ Returned => (outcome = "Some" <=> Len(errs) = rets.errs0)
    /\ (pc = "evaluate" \/ (Returned /\ values # <<>>)) =>
           (env.has_error <=> Len(errs) > rets.errs0)
    /\ outcome = "Some" => ~env.has_error /\ graph = env.graph
    /\ env.has_error => graph = <<>> /\ program = NoProgram /\ wave = <<>>

\* has_error is never cleared.
HasErrorSticky == env.has_error => env.has_error'

\* C11: evaluate_program returns Some (with the graph) if and only if no
\* diagnostic was emitted during evaluation; has_error is set by every
\* Env::error and never cleared, and no graph is handed out while it is set.
C11_GraphIffNoDiagnostic == []ReturnsGraphIffQuiet /\ [][HasErrorSticky]_vars

\* A run that built nodes, emitted a diagnostic and handed no graph out
\* although an output path was given.
C11_Witness ==
    /\ pc = "failed"
    /\ outcome = "None"
    /\ operands.output_wave
    /\ env.has_error
    /\ Len(env.graph) >= 2
    /\ wave = <<>>

IsVoid(r) == r.ok /\ r.v.data = "Void"

IsVoltSignal(r) == r.ok /\ r.v.data = "Signal" /\ r.v.units = Units_of(1, 0, 0, 0)

\* C12: evaluate_program succeeds only if every leading form evaluates to
\* Void and the last to a Signal of units V^1; a leading form with another
\* value gets `invalid top-level statement` and the following forms are
\* still evaluated; a last form with another value gets `invalid program
\* body` and the program fails.
C12_TopLevelForms ==
    /\ outcome = "Some" =>
           /\ Len(evlog) = Len(values)
           /\ \A k \in 1..(Len(values) - 1) : IsVoid(evlog[k].raw)
           /\ IsVoltSignal(evlog[Len(values)].raw)
    /\ \A k \in 1..Len(evlog) :
           (k < Len(values) /\ evlog[k].raw.ok /\ ~IsVoid(evlog[k].raw)) =>
               LastDiag(ErrsAfter(k), "invalid top-level statement", values[k].pos)
    /\ (Returned /\ values # <<>>) => Len(evlog) = Len(values)
    /\ (pc = "evaluate" /\ values # <<>>) => Len(evlog) < Len(values)
    /\ \A k \in 1..Len(evlog) :
           (k = Len(values) /\ evlog[k].raw.ok /\ ~IsVoltSignal(evlog[k].raw)) =>
               /\ LastDiag(errs, "invalid program body", values[k].pos)
               /\ outcome = "None"

\* Three forms: the first a signal, the second void, the last void.
C12_Witness ==
    /\ Len(values) = 3
    /\ Len(evlog) = 3
    /\ evlog[1].raw.ok /\ evlog[1].raw.v.data = "Signal"
    /\ IsVoid(evlog[2].raw)
    /\ IsVoid(evlog[3].raw)
    /\ outcome = "None"

\* The run of `()` has ended.
EmptyListRan == input = <<40, 41>> /\ pc \in {"failed", "finished", "wave", "panicked"}

\* C13 as stated: for the text `()` the diagnostic is `empty program`,
\* evaluation fails and no WAV is written.
C13_EmptyProgramDiagnostic ==
    EmptyListRan => HasDiag(errs, "empty program") /\ outcome = "None" /\ wave = <<>>

\* C13: for the text `()` the one diagnostic is `cannot evaluate empty
\* list` at the list, evaluation fails and no WAV is written.
C13_EmptyListDiagnostic ==
    /\ EmptyListRan =>
           /\ Len(errs) = 1
           /\ LastDiag(errs, "cannot evaluate empty list", values[1].pos)
           /\ outcome = "None"
           /\ wave = <<>>
           /\ program = NoProgram
    /\ input = <<40, 41>> => pc \notin {"finished", "wave", "panicked", "evaluated"}

C13_Witness == EmptyListRan /\ operands.output_wave /\ Len(values) = 1 /\ Len(evlog) = 1

\* The top-level form k is (define n v) with a symbol n.
IsDefine(k) ==
    /\ values[k].kind = "List"
    /\ Len(values[k].items) = 3
    /\ values[k].items[1].kind = "Symbol"
    /\ values[k].items[1].text = Name_define
    /\ values[k].items[2].kind = "Symbol"

DefinedName(k) == values[k].items[2].text

\* The define of form k bound a fresh name: the value was evaluated in the
\* state before, the name is bound to what it gave, and the form is Void
\* when the value is a non-void value.
FreshDefine(k, v) ==
    /\ evlog[k].after.graph = v.e.graph
    /\ variables_get(evlog[k].after.variables, DefinedName(k)) # <<>>
    /\ (v.r.ok /\ v.r.v.data # "Void") =>
           /\ variables_get(evlog[k].after.variables, DefinedName(k)) = <<v.r>>
           /\ evlog[k].raw = Ok(Value_void)
           /\ evlog[k].after.errs = v.e.errs
    /\ \A i \in 1..Len(evlog[k].before.variables) :
           variables_get(evlog[k].after.variables, evlog[k].before.variables[i].name)
               = <<evlog[k].before.variables[i].value>>

\* The define of form k named a bound name: the diagnostic, then the value
\* evaluated (v is that evaluation), the failure, and the variables as they
\* were.
DuplicateDefine(k, v) ==
    /\ Len(evlog[k].after.errs) > Len(evlog[k].before.errs)
    /\ evlog[k].after.errs[Len(evlog[k].before.errs) + 1]
           = Diag(values[k].items[2].pos, "a variable named is already defined",
                  <<DefinedName(k)>>)
    /\ evlog[k].raw = Err(Failed)
    /\ evlog[k].after.variables = evlog[k].before.variables
    /\ evlog[k].after.graph = v.e.graph
    /\ evlog[k].after.errs = v.e.errs
    /\ evlog[k].after.has_error

\* C14: (define name value) binds name and evaluates to Void; a define of
\* a bound name emits `a variable named ... is already defined`, fails and
\* leaves the binding as it was, and its value is evaluated all the same.
C14_Define ==
    \A k \in 1..Len(evlog) :
        IsDefine(k) =>
            IF variables_get(evlog[k].before.variables, DefinedName(k)) = <<>>
            THEN FreshDefine(k, evaluate_impl(evlog[k].before, values[k].items[3]))
            ELSE DuplicateDefine(k,
                     evaluate_impl(Env_error(evlog[k].before, values[k].items[2].pos,
                                             "a variable named is already defined",
                                             <<DefinedName(k)>>),
                                   values[k].items[3]))

\* x bound to a signal, then a second define of x whose value builds a node.
C14_Witness ==
    /\ Len(evlog) >= 2
    /\ IsDefine(1) /\ IsDefine(2)
    /\ DefinedName(1) = DefinedName(2)
    /\ IsVoid(evlog[1].raw)
    /\ Len(evlog[2].after.graph) > Len(evlog[2].before.graph)
    /\ variables_get(evlog[2].after.variables, DefinedName(2))
           = variables_get(evlog[1].after.variables, DefinedName(1))

----------------------------------------------------------------------------
(* Claims about numbers. *)

Zeros(k) == [i \in 1..k |-> 0]

\* The printed number parses back, whole, to the trimmed number.
RoundTrip ==
    (pc = "done" /\ rets.parsed.ok) =>
        /\ rets.again.ok
        /\ rets.again.rest = Len(rets.text)
        /\ rets.retrimmed = rets.trimmed

\* The literal was valid and trim has run.
Trimmed == pc \in {"format", "reparse"} \/ (pc = "done" /\ rets.parsed.ok)

TrimIdempotent == Trimmed => trim(rets.trimmed) = rets.trimmed

\* trim took `low` least significant and `high` most significant zeros from n
\* and added `low` to the exponent, which it touches only when there is one.
TrimmedBy(n, t, low, high) ==
    /\ n.digits = Zeros(low) \o t.digits \o Zeros(high)
    /\ t.sign = n.sign
    /\ t.radix = n.radix
    /\ IF n.exponent = <<>>
       THEN low = 0 /\ t.exponent = <<>>
       ELSE /\ n.exponent[1] <= I32Max - low
            /\ t.exponent = <<n.exponent[1] + low>>

TrimKeepsValue ==
    Trimmed =>
        \E low, high \in 0..Len(rets.parsed.number.digits) :
            TrimmedBy(rets.parsed.number, rets.trimmed, low, high)

\* C17: for every valid literal, parse -> trim -> to_string -> parse -> trim
\* gives the number of the first parse -> trim; trim is idempotent, removes
\* only most significant zero digits and, when there is an exponent, least
\* significant zero digits, adding their count to the exponent so that the
\* value stays the same.
C17_NumberRoundTrip == RoundTrip /\ TrimIdempotent /\ TrimKeepsValue

\* As TrimmedBy, with the exponent saturating at the ends of the i32 range.
TrimmedSaturating(n, t, low, high) ==
    /\ n.digits = Zeros(low) \o t.digits \o Zeros(high)
    /\ t.sign = n.sign
    /\ t.radix = n.radix
    /\ IF n.exponent = <<>>
       THEN low = 0 /\ t.exponent = <<>>
       ELSE t.exponent = <<IF n.exponent[1] > I32Max - low THEN I32Max
                           ELSE n.exponent[1] + low>>

TrimSaturates ==
    Trimmed =>
        \E low, high \in 0..Len(rets.parsed.number.digits) :
            TrimmedSaturating(rets.parsed.number, rets.trimmed, low, high)

\* C17 as amended: the round trip and the idempotence as stated; the count
\* of least significant zeros removed is added to the exponent with
\* saturation at i32::MAX.
C17_RoundTripSaturating == RoundTrip /\ TrimIdempotent /\ TrimSaturates

\* A literal with an exponent and zeros at both ends of its digits has
\* made the whole round trip.
C17_Witness ==
    /\ pc = "done"
    /\ rets.parsed.ok
    /\ rets.parsed.number.exponent # <<>>
    /\ Len(rets.parsed.number.digits) >= 3
    /\ Head(rets.parsed.number.digits) = 0
    /\ rets.parsed.number.digits[Len(rets.parsed.number.digits)] = 0
    /\ rets.trimmed.digits # <<>>
    /\ rets.trimmed.exponent # rets.parsed.number.exponent

----------------------------------------------------------------------------
(* Claims about the units algebra. *)

\* C15: Units::multiply is commutative and associative whenever no product
\* overflows, and Units::scalar() is a two-sided identity: a*b = b*a,
\* (a*b)*c = a*(b*c) and a*scalar = scalar*a = a.
C15_MultiplyAlgebra ==
    /\ pc \in {"units3", "done"} =>
          /\ (rets.ab.ok /\ rets.ba.ok => rets.ab.units = rets.ba.units)
          /\ rets.as = [ok |-> TRUE, units |-> operands.a]
          /\ rets.sa = [ok |-> TRUE, units |-> operands.a]
    /\ (pc = "done" /\ rets.ab_c.ok /\ rets.a_bc.ok) => rets.ab_c.units = rets.a_bc.units

\* The component sums of two units, not reduced to 8 bits.
ExponentSums(a, b) ==
    <<a.volt + b.volt, a.second + b.second, a.radian + b.radian, a.decibel + b.decibel>>

\* C16: Units::multiply(a, b) is Ok with every exponent the sum of the
\* corresponding exponents of a and b, and is Err(Overflow) exactly when one
\* of the four sums lies outside [-128, 127].
C16_MultiplyAddsExponents ==
    pc \in {"units3", "done"} =>
        LET sums == ExponentSums(operands.a, operands.b) IN
        /\ rets.ab.ok <=> \A k \in 1..4 : I8Min <= sums[k] /\ sums[k] <= I8Max
        /\ rets.ab.ok => rets.ab.units = Units_of(sums[1], sums[2], sums[3], sums[4])

----------------------------------------------------------------------------
(* Claims about function calls and failures (checked under SpecArgs). *)

\* The states an Env passes through while the arguments `items` are
\* evaluated one after the other, each once: the state before the first,
\* then the state each argument leaves.
RECURSIVE ArgStates(_, _)
ArgStates(e, items) ==
    IF items = <<>> THEN <<e>>
    ELSE <<e>> \o ArgStates(evaluate_impl(e, items[1]).e, Tail(items))

IsPrefix(a, b) == Len(a) <= Len(b) /\ SubSeq(b, 1, Len(a)) = a

\* The logged forms that call a function.
FunctionCalls ==
    {k \in 1..Len(evlog) :
         /\ values[k].kind = "List"
         /\ values[k].items # <<>>
         /\ values[k].items[1].kind = "Symbol"
         /\ operators(values[k].items[1].text) # <<>>
         /\ operators(values[k].items[1].text)[1].kind = "Function"}

ArgsOf(k) == Tail(values[k].items)

\* The state the arguments of call k leave, when none of them is skipped.
AfterArgs(k) == ArgStates(evlog[k].before, ArgsOf(k))[Len(ArgsOf(k)) + 1]

\* The number of arguments a function was handed, where its diagnostic
\* tells.
ArgsCounted(k) ==
    \A i \in 1..Len(evlog[k].after.errs) :
        (/\ i > Len(evlog[k].before.errs)
         /\ evlog[k].after.errs[i].msg = "invalid call to"
         /\ evlog[k].after.errs[i].args[2].kind = "BadNArgs")
        => evlog[k].after.errs[i].args[2].got = Len(ArgsOf(k))

\* C35: a function call evaluates every argument once, from left to right,
\* before the function runs, also after an argument failed: the diagnostics
\* of all arguments are emitted in order, the nodes of the arguments that
\* succeeded stay in the graph, and the function is handed one result for
\* each argument.
C35_AllArgumentsEvaluated ==
    \A k \in FunctionCalls :
        ~evlog[k].after.panicked =>
            /\ IsPrefix(AfterArgs(k).errs, evlog[k].after.errs)
            /\ IsPrefix(AfterArgs(k).graph, evlog[k].after.graph)
            /\ ArgsCounted(k)

\* (oscillator () ()) was evaluated: both empty lists were reported, in
\* order, before the invalid call; and (* () (noise)) left the node of its
\* second argument in the graph although the call failed.
C35_Witness ==
    /\ Len(evlog) = 2
    /\ input = List3(Name_oscillator, List1(<<>>), List1(<<>>)) \o Space
               \o List3(Name_multiply, List1(<<>>), List1(Name_noise))
    /\ Len(evlog[1].after.errs) = 3
    /\ evlog[1].after.errs[1].msg = "cannot evaluate empty list"
    /\ evlog[1].after.errs[2].msg = "cannot evaluate empty list"
    /\ evlog[1].after.errs[1].pos # evlog[1].after.errs[2].pos
    /\ evlog[1].after.errs[3].msg = "invalid call to"
    /\ evlog[1].after.errs[3].args[2].got = 2
    /\ ~evlog[2].raw.ok
    /\ Len(evlog[2].after.errs) = 4
    /\ Len(evlog[2].after.graph) = 1
    /\ evlog[2].after.graph[1].kind = "Noise"

\* The evaluation steps inside the evaluation of expr in state e: the step
\* itself, the steps of the arguments of a function, and the steps of the
\* value of a define that has its two arguments.
RECURSIVE Steps(_, _)
RECURSIVE ArgSteps(_, _)
ArgSteps(e, items) ==
    IF items = <<>> THEN {}
    ELSE Steps(e, items[1]) \cup ArgSteps(evaluate_impl(e, items[1]).e, Tail(items))

Steps(e, expr) ==
    {[e |-> e, expr |-> expr]}
    \cup IF expr.kind # "List" \/ expr.items = <<>> \/ expr.items[1].kind # "Symbol"
            \/ operators(expr.items[1].text) = <<>>
         THEN {}
         ELSE IF operators(expr.items[1].text)[1].kind = "Function"
         THEN ArgSteps(e, Tail(expr.items))
         ELSE IF Len(expr.items) = 3
         THEN Steps(define_name(e, get_symbol("name", expr.items[2])).e, expr.items[3])
         ELSE {}

LoggedSteps == UNION {Steps(evlog[k].before, values[k]) : k \in 1..Len(evlog)}

\* The number of arguments the operator `name` refuses n for.
WrongArity(name, n) ==
    \/ name = Name_define /\ n # 2
    \/ name = Name_noise /\ n # 0
    \/ name \in {Name_oscillator, Name_note} /\ n # 1
    \/ name = Name_multiply /\ n = 0

IsCall(expr) ==
    /\ expr.kind = "List"
    /\ expr.items # <<>>
    /\ expr.items[1].kind = "Symbol"
    /\ operators(expr.items[1].text) # <<>>

\* The state when the operator of the call st runs.
OperatorRuns(st) ==
    IF operators(st.expr.items[1].text)[1].kind = "Function"
    THEN ArgStates(st.e, Tail(st.expr.items))[Len(st.expr.items)]
    ELSE st.e

\* A step that returns Failed leaves has_error set and a diagnostic behind.
FailedIsReported(st, x) ==
    (~x.r.ok /\ x.r.err.kind = "Failed" /\ ~x.e.panicked) =>
        x.e.has_error /\ x.e.errs # <<>>

\* A call with the wrong number of arguments adds the one diagnostic
\* `invalid call to`, at the operator.
BadNArgsReported(st, x) ==
    (IsCall(st.expr) /\ WrongArity(st.expr.items[1].text, Len(st.expr.items) - 1)) =>
        /\ x.r = Err(Failed)
        /\ Len(x.e.errs) = Len(OperatorRuns(st).errs) + 1
        /\ IsPrefix(OperatorRuns(st).errs, x.e.errs)
        /\ x.e.errs[Len(x.e.errs)].msg = "invalid call to"
        /\ x.e.errs[Len(x.e.errs)].pos = st.expr.items[1].pos
        /\ x.e.errs[Len(x.e.errs)].args[2].kind = "BadNArgs"

\* A name bound to the marker of a define that failed evaluates to Failed
\* with no diagnostic.
FailedNameIsQuiet(st, x) ==
    (/\ st.expr.kind = "Symbol"
     /\ variables_get(st.e.variables, st.expr.text) # <<>>
     /\ ~variables_get(st.e.variables, st.expr.text)[1].ok) =>
        x.r = Err(Failed) /\ x.e = st.e

\* C39: an evaluation step that returns Failed has emitted a diagnostic or
\* follows one, and has_error is set; a BadNArgs result becomes exactly one
\* `invalid call to` diagnostic; a reference to a name whose define failed
\* returns the stored failure and adds no diagnostic.
C39_FailedAfterDiagnostic ==
    \A st \in LoggedSteps :
        /\ FailedIsReported(st, evaluate_impl(st.e, st.expr))
        /\ BadNArgsReported(st, evaluate_impl(st.e, st.expr))
        /\ FailedNameIsQuiet(st, evaluate_impl(st.e, st.expr))

\* (define x ()) failed with one diagnostic, and the x after it returned
\* Failed with none.
C39_Witness ==
    /\ Len(evlog) = 2
    /\ input = List3(Name_define, Sym_x, List1(<<>>)) \o Space \o Sym_x
    /\ evlog[1].raw = Err(Failed)
    /\ Len(evlog[1].after.errs) = 1
    /\ evlog[2].raw = Err(Failed)
    /\ evlog[2].after = evlog[2].before
    /\ errs = evlog[1].after.errs
    /\ env.has_error

\* (noise (noise)): the one diagnostic of a call with too many arguments.
C39_BadNArgsWitness ==
    /\ Len(evlog) = 1
    /\ input = List2(Name_noise, List1(Name_noise))
    /\ Len(errs) = 1
    /\ errs[1].msg = "invalid call to"
    /\ errs[1].args[2] = BadNArgs(1, 0, <<0>>)
    /\ Len(evlog[1].after.graph) = 1

----------------------------------------------------------------------------
(* utf8.rs: parse_character on a byte slice. *)

MaxUtf8Len == 4      \* longest slice drawn from Utf8Bytes

\* 'A'; the continuation bytes 80 90 A0 BF; the lead bytes C0 C2 E0 ED F0 F4
\* F7; and F8, which is no lead byte
Utf8Bytes == {65, 128, 144, 160, 191, 192, 194, 224, 237, 240, 244, 247, 248}

InitUtf8 ==
    /\ lead = <<0, 0>>
    /\ input \in SeqsUpTo(Utf8Bytes, MaxUtf8Len)
    /\ pc = "utf8"
    /\ InitFront
    /\ InitBack

\* parse_character(text) on the slice.
ParseCharacter ==
    /\ pc = "utf8"
    /\ rets' = parse_character(input, 0)
    /\ pc' = "utf8done"
    /\ UNCHANGED <<frontvarsButPc, operands, env, evlog, outcome, graph, program, render, wave>>

NextUtf8 == ParseCharacter

SpecUtf8 == InitUtf8 /\ [][NextUtf8]_vars

\* The continuation bytes a lead byte announces: 0 for a byte that is no
\* lead byte of a sequence.
Announced(c1) ==
    IF 192 <= c1 /\ c1 <= 223 THEN 1
    ELSE IF 224 <= c1 /\ c1 <= 239 THEN 2
    ELSE IF 240 <= c1 /\ c1 <= 247 THEN 3
    ELSE 0

\* The continuation bytes that follow the first byte of text, up to k.
Continued(text, k) ==
    CHOOSE v \in 0..k :
        /\ \A i \in 1..v : i + 1 <= Len(text) /\ is_continuation(text[i + 1])
        /\ v = k \/ v + 2 > Len(text) \/ ~is_continuation(text[v + 2])

\* C32: parse_character returns (None, 0) on the empty slice; on any other
\* a length n from 1 to min(4, len): 1 for an ASCII byte, a stray
\* continuation byte or a byte from F8 on, the continuation bytes read plus
\* one for a truncated sequence, the length of the sequence when it is
\* complete; and Some(char) exactly when the first n bytes are well-formed
\* UTF-8.
C32_ParseCharacter ==
    pc = "utf8done" =>
        /\ input = <<>> => rets.len = 0 /\ ~rets.ok
        /\ input # <<>> =>
               /\ 1 <= rets.len /\ rets.len <= 4 /\ rets.len <= Len(input)
               /\ rets.len = Continued(input, Announced(input[1])) + 1
               /\ Continued(input, Announced(input[1])) < Announced(input[1]) => ~rets.ok
               /\ rets.ok <=> from_utf8_ok(SubSeq(input, 1, rets.len))

\* F0 90 'A': a four-byte sequence cut short after one continuation byte.
C32_Witness ==
    /\ pc = "utf8done"
    /\ input = <<240, 144, 65>>
    /\ rets.len = 2
    /\ ~rets.ok

\* ED A0 80, a surrogate, and F4 90 80 80, past U+10FFFF: complete
\* sequences that are no character.
C32_WitnessNoScalar ==
    /\ pc = "utf8done"
    /\ input \in {<<237, 160, 128>>, <<244, 144, 128, 128>>}
    /\ rets.len = Len(input)
    /\ ~rets.ok

----------------------------------------------------------------------------
(* sourcetext.rs: SourceText.  Positions and offsets are far below 2^32
   here and are plain integers. *)

MaxTextLen == 5      \* longest text drawn from TextBytes

\* LF, CR and 'a'
TextBytes == {10, 13, 97}

\* Vec::pop
Pop(v) == SubSeq(v, 1, Len(v) - 1)

\* A SourceText::new that starts a line after every CR and after every LF.
lines_step_no_pop(lines, prev, n, c) ==
    IF c = 10 THEN Append(lines, n + 1)
    ELSE IF c = 13 THEN Append(lines, n + 1)
    ELSE lines

\* One turn of the loop of SourceText::new, on the byte c at index n.
lines_step(lines, prev, n, c) ==
    IF c = 10 THEN Append(IF prev = 13 THEN Pop(lines) ELSE lines, n + 1)
    ELSE IF c = 13 THEN Append(lines, n + 1)
    ELSE lines

RECURSIVE lines_from(_, _, _, _)
\* The loop of SourceText::new from index n (0-based) on.
lines_from(text, lines, prev, n) ==
    IF n >= Len(text) THEN lines
    ELSE lines_from(text, lines_step(lines, prev, n, text[n + 1]), text[n + 1], n + 1)

\* SourceText::new: the line starts, and the span as [start, end].
SourceText_new(text) ==
    [lines |-> lines_from(text, <<0>>, 0, 0), start |-> 1, end |-> Len(text) + 1]

\* What slice::binary_search may return: Ok(i) for an i with v[i] = x, or,
\* when there is none, Err(i) for the number i of elements below x.
binary_search(v, x) ==
    IF \E i \in 1..Len(v) : v[i] = x
    THEN {[found |-> TRUE, i |-> i - 1] : i \in {j \in 1..Len(v) : v[j] = x}}
    ELSE {[found |-> FALSE, i |-> Cardinality({j \in 1..Len(v) : v[j] < x})]}

\* The TextPos of SourceText::lookup for the result b of the search.
text_pos(st, offset, b) ==
    IF b.found THEN <<[line |-> b.i, byte |-> 0]>>
    ELSE <<[line |-> b.i - 1, byte |-> offset - st.lines[b.i]]>>

\* SourceText::lookup: the results it may give, <<>> for None.
SourceText_lookup(st, p) ==
    IF p < st.start \/ st.end < p THEN {<<>>}
    ELSE {text_pos(st, p - st.start, b) : b \in binary_search(st.lines, p - st.start)}

InitText ==
    /\ lead = <<0, 0>>
    /\ input \in SeqsUpTo(TextBytes, MaxTextLen)
    /\ pc = "text"
    /\ InitFront
    /\ InitBack

\* SourceText::new(text)
TextNew ==
    /\ pc = "text"
    /\ rets' = [st |-> SourceText_new(input), pos |-> 0, found |-> <<>>]
    /\ pc' = "lookup"
    /\ UNCHANGED <<frontvarsButPc, operands, env, evlog, outcome, graph, program, render, wave>>

\* text.lookup(Pos(p)), for positions in the text and around it.
TextLookup ==
    /\ pc \in {"lookup", "looked"}
    /\ \E p \in 0..(Len(input) + 3) :
           \E r \in SourceText_lookup(rets.st, p) :
               rets' = [st |-> rets.st, pos |-> p, found |-> r]
    /\ pc' = "looked"
    /\ UNCHANGED <<frontvarsButPc, operands, env, evlog, outcome, graph, program, render, wave>>

NextText == TextNew \/ TextLookup

SpecText == InitText /\ [][NextText]_vars

\* The offsets that follow a line break of the text: an LF, a CR with no LF
\* after it, or the LF of a CR-LF pair.
AfterBreaks(text) ==
    {n \in 1..Len(text) :
         \/ text[n] = 10
         \/ text[n] = 13 /\ ~(n < Len(text) /\ text[n + 1] = 10)}

StrictlyIncreasing(v) == \A i \in 1..(Len(v) - 1) : v[i] < v[i + 1]

LineStartsRight(text, lines) ==
    /\ lines[1] = 0
    /\ StrictlyIncreasing(lines)
    /\ {lines[i] : i \in 1..Len(lines)} = {0} \cup AfterBreaks(text)
    /\ Len(lines) = 1 + Cardinality(AfterBreaks(text))

LookupRight(text, lines, p, r) ==
    IF p >= 1 /\ p <= Len(text) + 1
    THEN /\ r # <<>>
         /\ r[1].line + 1 \in 1..Len(lines)
         /\ r[1].byte >= 0
         /\ lines[r[1].line + 1] + r[1].byte = p - 1
         /\ r[1].line + 2 <= Len(lines) => lines[r[1].line + 2] > p - 1
    ELSE r = <<>>

\* C31: the line starts SourceText::new builds begin with 0 and increase
\* strictly, with one line break for each LF, each lone CR and each CR-LF
\* pair; lookup(Pos(p)) gives, for p from 1 to len + 1, the last line that
\* starts at or before offset p - 1 and the bytes from its start, and None
\* for p = 0 and for p > len + 1.
C31_LinesAndLookup ==
    /\ pc \in {"lookup", "looked"} => LineStartsRight(input, rets.st.lines)
    /\ pc = "looked" => LookupRight(input, rets.st.lines, rets.pos, rets.found)

\* "a" CR LF "a" CR: the pair is one break, and the LF of the pair is still
\* on line 0.
C31_Witness ==
    /\ pc = "looked"
    /\ input = <<97, 13, 10, 97, 13>>
    /\ rets.st.lines = <<0, 3, 5>>
    /\ rets.pos = 3
    /\ rets.found = <<[line |-> 0, byte |-> 2]>>

\* A position past the end of the text.
C31_WitnessNone ==
    /\ pc = "looked"
    /\ input = <<97, 10>>
    /\ rets.pos = 4
    /\ rets.found = <<>>

----------------------------------------------------------------------------
(* signal/filter.rs: StateVariable and SVF.  The samples, the coefficients
   and 1/q are small integers here, for which the f32 arithmetic of
   SVF::render is exact. *)

MaxFilterRenders == 2    \* render calls on one StateVariableF

FilterBufferSize == 2    \* Parameters::buffer_size

\* The input samples of the filter.
FilterSamples == {-1, 0, 1}

\* (q * 0.5f64.sqrt()).sqrt() for LowPass4, q for the other modes, and
\* (1.0 / q) as f32, for the q of the nodes: 1 and 1/2, and the sqrt(2) and
\* sqrt(2)/4 that the LowPass4 transform takes to them.
filter_invq(mode, q) ==
    IF mode = "LowPass4" THEN (IF q = "sqrt(2)" THEN 1 ELSE 2)
    ELSE (IF q = "1" THEN 1 ELSE 2)

FilterQ(mode) == IF mode = "LowPass4" THEN {"sqrt(2)", "sqrt(2)/4"} ELSE {"1", "1/2"}

\* StateVariable::instantiate
StateVariable_instantiate(mode, q, sample_rate) ==
    [stage |-> <<<<0, 0>>, <<0, 0>>>>, sample_rate |-> sample_rate, mode |-> mode,
     invq |-> filter_invq(mode, q)]

\* (self.scale * (x * 0.5).min(20000.0)).sin() for a frequency x of 0 and
\* of half the sample rate: sin(0) and the f32 sine of a quarter turn.
filter_coefficient(sample_rate, x) == IF x = 0 THEN 0 ELSE 1

\* The frequencies the coefficient is modelled for.
FilterFrequencies(sample_rate) == {0, sample_rate \div 2}

\* The body of the loop of SVF::render after the first half: the state
\* left and the three outputs.
SVF_second(a, b, x, f, invq) ==
    [a |-> a + f * (x - (b + f * a) - invq * a),
     b |-> b + f * a,
     c |-> x - (b + f * a) - invq * a]

\* One turn of the loop of SVF::render on state <<a, b>>.
SVF_sample(state, x, f, invq) ==
    SVF_second(state[1] + f * (x - (state[2] + f * state[1]) - invq * state[1]),
               state[2] + f * state[1], x, f, invq)

SVF_output(r, mode) ==
    IF mode = "LowPass" THEN r.b ELSE IF mode = "HighPass" THEN r.c ELSE r.a

RECURSIVE SVF_render(_, _, _, _, _, _)
\* SVF::render: the output so far, and the state.
SVF_render(state, output, xs, frequency, invq, mode) ==
    IF Len(output) >= Len(xs) \/ Len(output) >= Len(frequency)
    THEN [state |-> state, output |-> output]
    ELSE SVF_render(<<SVF_sample(state, xs[Len(output) + 1],
                                 frequency[Len(output) + 1], invq).a,
                      SVF_sample(state, xs[Len(output) + 1],
                                 frequency[Len(output) + 1], invq).b>>,
                    Append(output,
                           SVF_output(SVF_sample(state, xs[Len(output) + 1],
                                                 frequency[Len(output) + 1], invq), mode)),
                    xs, frequency, invq, mode)

\* The temp buffer of StateVariableF::render.
filter_temp(fn, frequency) ==
    [k \in 1..Len(frequency) |-> filter_coefficient(fn.sample_rate, frequency[k])]

\* The LowPass4 arm: both stages render into output from the input xs.
low_pass_4(fn, first, xs, temp) ==
    [fn |-> [fn EXCEPT !.stage =
                 <<first.state,
                   SVF_render(fn.stage[2], <<>>, xs, temp, fn.invq, "LowPass").state>>],
     output |-> SVF_render(fn.stage[2], <<>>, xs, temp, fn.invq, "LowPass").output]

single_stage(fn, r) == [fn |-> [fn EXCEPT !.stage[1] = r.state], output |-> r.output]

\* StateVariableF::render
StateVariableF_render(fn, xs, frequency) ==
    IF fn.mode = "LowPass4"
    THEN low_pass_4(fn, SVF_render(fn.stage[1], <<>>, xs, filter_temp(fn, frequency),
                                   fn.invq, "LowPass"),
                    xs, filter_temp(fn, frequency))
    ELSE single_stage(fn, SVF_render(fn.stage[1], <<>>, xs, filter_temp(fn, frequency),
                                     fn.invq,
                                     IF fn.mode = "LowPass2" THEN "LowPass"
                                     ELSE IF fn.mode = "HighPass2" THEN "HighPass"
                                     ELSE "BandPass"))

InitFilter ==
    /\ lead = <<0, 0>>
    /\ input = <<>>
    /\ pc = "filter"
    /\ InitFront
    /\ operands \in {[mode |-> m, q |-> q] :
                         m \in {"LowPass2", "HighPass2", "BandPass2", "LowPass4"},
                         q \in {"1", "1/2", "sqrt(2)", "sqrt(2)/4"}}
    /\ operands.q \in FilterQ(operands.mode)
    /\ InitRest

\* StateVariable::instantiate with the default sample rate.
FilterInstantiate ==
    /\ pc = "filter"
    /\ program' = StateVariable_instantiate(operands.mode, operands.q, DEFAULT_SAMPLE_RATE)
    /\ pc' = "filtering"
    /\ UNCHANGED <<frontvarsButPc, operands, rets, env, evlog, outcome, graph, render, wave>>

FilterRendered(x, freq, r) ==
    /\ program' = r.fn
    /\ render' = Append(render, [before |-> program, input |-> x, frequency |-> freq,
                                 output |-> r.output])

\* One call of StateVariableF::render on a buffer of input and of
\* frequency samples.
FilterRender ==
    /\ pc = "filtering"
    /\ Len(render) < MaxFilterRenders
    /\ \E x \in [1..FilterBufferSize -> FilterSamples],
          freq \in [1..FilterBufferSize -> FilterFrequencies(program.sample_rate)] :
           FilterRendered(x, freq, StateVariableF_render(program, x, freq))
    /\ UNCHANGED <<frontvars, operands, rets, env, evlog, outcome, graph, wave>>

NextFilter == FilterInstantiate \/ FilterRender

SpecFilter == InitFilter /\ [][NextFilter]_vars

\* What a low-pass stage in state `state` makes of the buffer x of call c.
StageOutput(c, state, x) ==
    SVF_render(state, <<>>, x, filter_temp(c.before, c.frequency), c.before.invq,
               "LowPass").output

\* C33: in LowPass4 mode the second stage filters the output of the first:
\* the output of a render call is stage2(stage1(input)).
C33_Cascade ==
    (pc = "filtering" /\ program.mode = "LowPass4") =>
        \A k \in 1..Len(render) :
            render[k].output =
                StageOutput(render[k], render[k].before.stage[2],
                            StageOutput(render[k], render[k].before.stage[1],
                                        render[k].input))

----------------------------------------------------------------------------
(* signal/ops.rs: Oscillator.  `scale` is held as the n of 1/n and the
   phase as a count of steps of 1/n cycle; the rounding of the f32
   arithmetic is left out. *)

MaxOscRenders == 2       \* render calls on one OscillatorF

OscBufferSize == 2       \* Parameters::buffer_size

\* The sample rates in the Parameters: the limits of write_wave, its
\* default, and 44100 and 96000.
OscRates == {MIN_SAMPLE_RATE, 44100, DEFAULT_SAMPLE_RATE, 96000, MAX_SAMPLE_RATE}

\* The frequencies fed to the oscillator: none, a quarter and a half of
\* the sample rate.
OscFrequencies(sample_rate) == {0, sample_rate \div 4, sample_rate \div 2}

\* Oscillator::instantiate: scale is 1.0 / 48000.0 whatever the Parameters.
Oscillator_instantiate(parameters) == [scale |-> 48000, phase |-> 0]

\* One turn of the loop of OscillatorF::render: the phase after the sample.
oscillator_phase(phase, frequency, scale) ==
    IF phase + frequency > scale THEN phase + frequency - scale ELSE phase + frequency

RECURSIVE OscillatorF_render(_, _, _)
\* OscillatorF::render: the output so far, and the function left.
OscillatorF_render(fn, output, frequency) ==
    IF Len(output) >= Len(frequency) THEN [fn |-> fn, output |-> output]
    ELSE OscillatorF_render(
             [fn EXCEPT !.phase = oscillator_phase(fn.phase, frequency[Len(output) + 1],
                                                   fn.scale)],
             Append(output, fn.phase), frequency)

InitOsc ==
    /\ lead = <<0, 0>>
    /\ input = <<>>
    /\ pc = "oscillator"
    /\ InitFront
    /\ operands \in {[sample_rate |-> r, buffer_size |-> OscBufferSize] : r \in OscRates}
    /\ InitRest

\* Oscillator::instantiate(parameters)
OscInstantiate ==
    /\ pc = "oscillator"
    /\ program' = Oscillator_instantiate(operands)
    /\ pc' = "oscillating"
    /\ UNCHANGED <<frontvarsButPc, operands, rets, env, evlog, outcome, graph, render, wave>>

OscRendered(freq, r) ==
    /\ program' = r.fn
    /\ render' = Append(render, [before |-> program, frequency |-> freq,
                                 output |-> r.output, after |-> r.fn])

\* One call of OscillatorF::render on a buffer of frequency samples.
OscRender ==
    /\ pc = "oscillating"
    /\ Len(render) < MaxOscRenders
    /\ \E freq \in [1..operands.buffer_size -> OscFrequencies(operands.sample_rate)] :
           OscRendered(freq, OscillatorF_render(program, <<>>, freq))
    /\ UNCHANGED <<frontvars, operands, rets, env, evlog, outcome, graph, wave>>

NextOsc == OscInstantiate \/ OscRender

SpecOsc == InitOsc /\ [][NextOsc]_vars

\* The phases of call c: its output and the phase it leaves.
Phases(c) == Append(c.output, c.after.phase)

\* steps / scale = frequency / sample_rate; scale and sample_rate are
\* multiples of 100.
AdvancesBy(steps, scale, frequency, sample_rate) ==
    steps * (sample_rate \div 100) = frequency * (scale \div 100)

\* C34: each sample advances the phase by frequency / sample_rate of a
\* cycle, less one cycle where it wraps, for the sample rate of the
\* Parameters the oscillator was instantiated with.
C34_PhaseByFrequency ==
    pc = "oscillating" =>
        \A k \in 1..Len(render) : \A i \in 1..Len(render[k].frequency) :
            \/ AdvancesBy(Phases(render[k])[i + 1] - Phases(render[k])[i],
                          render[k].before.scale, render[k].frequency[i],
                          operands.sample_rate)
            \/ AdvancesBy(Phases(render[k])[i + 1] - Phases(render[k])[i]
                              + render[k].before.scale,
                          render[k].before.scale, render[k].frequency[i],
                          operands.sample_rate)

\* At 48000 samples per second the phase does advance by frequency /
\* sample_rate: a quarter of a cycle for each sample at 12000 Hz.
OscRightAtDefault ==
    (pc = "oscillating" /\ operands.sample_rate = DEFAULT_SAMPLE_RATE) =>
        \A k \in 1..Len(render) : \A i \in 1..Len(render[k].frequency) :
            render[k].frequency[i] = 12000 =>
                Phases(render[k])[i + 1] - Phases(render[k])[i] \in {12000, 12000 - 48000}

====
